---- MODULE Spec2Model ----
(***************************************************************************)
(* Hierarchical Architecture Graph Engine of codeblock-vsix.               *)
(*                                                                         *)
(* The module models                                                       *)
(*   - the webview controller CallGraphContent (webview/index.tsx):        *)
(*     handleMessage, onNodeDoubleClick, goBack, getLayoutedElements;      *)
(*   - the backend BlockManager: the drillDown handler, _refreshGraph,     *)
(*     _loadSymbolsForFiles;                                               *)
(*   - ProcessInferenceService.generateSubsystemFlow / generateHeuristicFlow*)
(*   - GraphService.generateGraph / convertProcessToReactFlow.             *)
(*                                                                         *)
(* Conventions.  A file path is a natural number (its rank in the          *)
(* lexicographic order of the paths); Uri(fp) and Basename(fp) give the    *)
(* strings the code derives from it.  JavaScript null and undefined are    *)
(* the strings NULL and UNDEFINED.  React state is the value seen by the   *)
(* next event handler (every handler runs after the re-render its          *)
(* predecessor caused), except for the closure of handleMessage, which is  *)
(* created once by useEffect(..., []) and keeps the first render's state.  *)
(* Styling, positions and sizes of nodes are left out of the node records. *)
(***************************************************************************)
EXTENDS Integers, Sequences, FiniteSets, TLC

(***************************************************************************)
(* Bounds of the model.                                                    *)
(***************************************************************************)
NumFiles == 3          \* file paths 1..NumFiles of the workspace
MaxDrills == 2         \* drillDown requests per session
MaxInbox == 1          \* updateGraph messages in flight to the webview
MaxHeurFiles == 6      \* longest file list given to generateHeuristicFlow
MaxPaths == 2          \* longest file list of a drillDown message taken alone

(***************************************************************************)
(* JavaScript values.                                                      *)
(***************************************************************************)
NULL == "null"
UNDEFINED == "undefined"

\* JavaScript truthiness of a string-or-null value.
Truthy(x) == x \notin {NULL, UNDEFINED, ""}

\* a || b
OrElse(a, b) == IF Truthy(a) THEN a ELSE b

Files == 1..NumFiles

\* document.uri.toString()
Uri(fp) == "f" \o ToString(fp)

\* vscode.workspace.asRelativePath(fp).split('/').pop(), path.basename(fsPath)
Basename(fp) == "file" \o ToString(fp) \o ".ts"

Min(a, b) == IF a <= b THEN a ELSE b

\* Array.prototype.slice(0, k)
Slice(s, k) == SubSeq(s, 1, Min(k, Len(s)))

Range(s) == {s[i] : i \in DOMAIN s}

\* Array.prototype.sort() on paths: insertion of each element in order.
RECURSIVE InsertSorted(_, _)
InsertSorted(x, s) ==
    IF s = <<>> THEN <<x>>
    ELSE IF x <= Head(s) THEN <<x>> \o s
    ELSE <<Head(s)>> \o InsertSorted(x, Tail(s))

RECURSIVE SortPaths(_)
SortPaths(s) == IF s = <<>> THEN <<>> ELSE InsertSorted(Head(s), SortPaths(Tail(s)))

(***************************************************************************)
(* ProcessInferenceService.generateHeuristicFlow                           *)
(***************************************************************************)
HEURISTIC_CAP == 5

ProcNode(id, label, type, files) ==
    [id |-> id, label |-> label, type |-> type, files |-> files]

ProcEdge(source, target, label) ==
    [source |-> source, target |-> target, label |-> label]

StepId(index) == "step_" \o ToString(index)

\* previousId before the forEach callback runs for position i (1-based).
PreviousId(i) == IF i = 1 THEN "start" ELSE StepId(i - 2)

\* Variant without the five-file cap: one step per file of the list.
generateHeuristicFlow_NoCap(filePaths, label) ==
    LET steps == filePaths
        k == Len(steps)
    IN  [nodes |->
             <<ProcNode("start", "Start " \o label, "start", <<>>)>>
             \o [i \in 1..k |->
                    ProcNode(StepId(i - 1), "Execute " \o Basename(steps[i]),
                             "process", <<steps[i]>>)]
             \o <<ProcNode("end", "End Process", "end", <<>>)>>,
         edges |->
             [i \in 1..k |->
                 ProcEdge(PreviousId(i), StepId(i - 1),
                          IF i = 1 THEN "init" ELSE "next")]
             \o <<ProcEdge(PreviousId(k + 1), "end", "finish")>>]

\* Variant without the start and end nodes: the file steps only.
generateHeuristicFlow_StepsOnly(filePaths, label) ==
    LET steps == Slice(filePaths, HEURISTIC_CAP)
        k == Len(steps)
    IN  [nodes |->
             [i \in 1..k |->
                 ProcNode(StepId(i - 1), "Execute " \o Basename(steps[i]),
                          "process", <<steps[i]>>)],
         edges |->
             [i \in 1..(k - 1) |-> ProcEdge(StepId(i - 1), StepId(i), "next")]]

generateHeuristicFlow(filePaths, label) ==
    LET steps == Slice(filePaths, HEURISTIC_CAP)
        k == Len(steps)
    IN  [nodes |->
             <<ProcNode("start", "Start " \o label, "start", <<>>)>>
             \o [i \in 1..k |->
                    ProcNode(StepId(i - 1), "Execute " \o Basename(steps[i]),
                             "process", <<steps[i]>>)]
             \o <<ProcNode("end", "End Process", "end", <<>>)>>,
         edges |->
             [i \in 1..k |->
                 ProcEdge(PreviousId(i), StepId(i - 1),
                          IF i = 1 THEN "init" ELSE "next")]
             \o <<ProcEdge(PreviousId(k + 1), "end", "finish")>>]

(***************************************************************************)
(* GraphService.convertProcessToReactFlow                                  *)
(***************************************************************************)
\* A React Flow node: the fields the controller reads.
FlowNode(id, type, parentNode, label, dataType, files) ==
    [id |-> id, type |-> type, parentNode |-> parentNode,
     data |-> [label |-> label, type |-> dataType, files |-> files]]

FlowEdge(source, target, label, calls) ==
    [id |-> "e-" \o source \o "-" \o target, source |-> source,
     target |-> target, label |-> label, calls |-> calls]

convertProcessToReactFlow(processData) ==
    [nodes |-> [i \in DOMAIN processData.nodes |->
                   LET n == processData.nodes[i]
                   IN  FlowNode(n.id, OrElse(n.type, "process"), UNDEFINED,
                                n.label, OrElse(n.type, "process"), n.files)],
     edges |-> [i \in DOMAIN processData.edges |->
                   LET e == processData.edges[i]
                   IN  FlowEdge(e.source, e.target, e.label, <<>>)]]

(***************************************************************************)
(* Entities (vscode.DocumentSymbol) and the workspace snapshot.            *)
(***************************************************************************)
\* A reported outgoing call: call.to.uri, call.to.selectionRange.start.line,
\* call.to.name.
Call(uri, line, name) == [uri |-> uri, line |-> line, name |-> name]

\* line = range.start.line, selLine = selectionRange.start.line, calls = what
\* the call-hierarchy provider reports for the symbol.
Sym(name, kind, line, children, calls) ==
    [name |-> name, kind |-> kind, line |-> line, selLine |-> line,
     children |-> children, calls |-> calls]

\* The entity tree the symbol provider returns for each file of the
\* workspace snapshot used by the drill-down model.
WorkspaceSymbols(fp) ==
    CASE fp = 1 ->
           <<Sym("A", "Class", 0,
                 <<Sym("m", "Method", 1, <<>>, <<Call(Uri(2), 0, "g")>>)>>,
                 <<>>),
             Sym("h", "Function", 5,
                 <<Sym("v", "Variable", 6, <<>>, <<>>)>>, <<>>)>>
      [] fp = 2 ->
           <<Sym("g", "Function", 0, <<>>,
                 <<Call(Uri(1), 5, "h"), Call(Uri(1), 1, "m"),
                   Call(Uri(9), 0, "ext")>>),
             Sym("K", "Constant", 3, <<>>, <<>>)>>
      [] OTHER -> <<>>

\* Files vscode.workspace.openTextDocument can open; the others throw.
Loadable == {1, 2}

(***************************************************************************)
(* GraphService.generateGraph                                              *)
(***************************************************************************)
ROOT_ID == "root-system"

\* A Map built by a sequence of set(key, value) calls: the last write wins.
MapKeys(writes) == {writes[i][1] : i \in DOMAIN writes}

MapGet(writes, k) ==
    LET last == CHOOSE i \in DOMAIN writes :
                    /\ writes[i][1] = k
                    /\ \A j \in DOMAIN writes : writes[j][1] = k => j <= i
    IN  writes[last][2]

MapHas(writes, k) == k \in MapKeys(writes)

\* GraphService._getNodeId: the id, and the key it stores the id under.
getNodeId(uri, symbol) ==
    uri \o "::" \o symbol.name \o "::" \o ToString(symbol.line)

NodeIdKey(uri, line) == uri \o ":" \o ToString(line)

\* The symbols of a tree in the order a depth-first walk visits them.
RECURSIVE Flatten(_)
Flatten(items) ==
    IF items = <<>> THEN <<>>
    ELSE <<Head(items)>> \o Flatten(Head(items).children) \o Flatten(Tail(items))

IsClassKind(kind) == kind \in {"Class", "Interface"}
IsMemberKind(kind) == kind \in {"Function", "Method", "Constant", "Variable"}

\* `mod-${moduleName.replace(/\s+/g, '-').toLowerCase()}`
ModuleSlug(moduleName) ==
    CASE moduleName = "Core / Utilities" -> "core-/-utilities"
      [] moduleName = "Data Layer" -> "data-layer"
      [] moduleName = "data layer" -> "data-layer"
      [] moduleName = "Business Logic" -> "business-logic"
      [] OTHER -> moduleName

GroupId(moduleName) == "mod-" \o ModuleSlug(moduleName)

\* semanticMap is a function from paths to module names; an absent map is
\* the function with the empty domain.
NoSemanticMap == [fp \in {} |-> ""]

\* parentId of the file at position i of the batch.
FileParentId(files, i, semanticMap, virtualRootLabel) ==
    IF files[i].fsPath \in DOMAIN semanticMap
    THEN GroupId(semanticMap[files[i].fsPath])
    ELSE IF Truthy(virtualRootLabel) THEN ROOT_ID ELSE UNDEFINED

\* moduleGroups.has(moduleName) is false when the loop reaches file i.
IsNewModule(files, i, semanticMap) ==
    /\ files[i].fsPath \in DOMAIN semanticMap
    /\ \A j \in 1..(i - 1) :
          files[j].fsPath \in DOMAIN semanticMap
             => semanticMap[files[j].fsPath] # semanticMap[files[i].fsPath]

\* processSymbols, one item: the nodes it pushes.
ItemNodes(uri, item, ownerId, fileId, systemParentId, includeFiles) ==
    LET id == getNodeId(uri, item)
    IN  IF IsClassKind(item.kind)
        THEN <<FlowNode(id, "component",
                        IF includeFiles THEN ownerId ELSE systemParentId,
                        item.name, "component", <<>>)>>
        ELSE IF IsMemberKind(item.kind) /\ ownerId = fileId /\ ~includeFiles
        THEN <<FlowNode(id, "component", systemParentId, item.name,
                        "component", <<>>)>>
        ELSE <<>>

\* processSymbols that maps every function, method, constant and variable
\* to the container, as if hidden inside it.
ItemOwnerWrites_Hidden(uri, item, ownerId, fileId, systemParentId, includeFiles) ==
    LET id == getNodeId(uri, item)
        activeParent == IF includeFiles THEN ownerId ELSE systemParentId
        sub == Flatten(item.children)
    IN  IF IsClassKind(item.kind)
        THEN <<(<<id, id>>)>>
             \o [i \in DOMAIN item.children |->
                    <<getNodeId(uri, item.children[i]), id>>]
        ELSE IF IsMemberKind(item.kind)
        THEN <<(<<id, activeParent>>)>>
             \o [i \in DOMAIN sub |-> <<getNodeId(uri, sub[i]), activeParent>>]
        ELSE <<>>

\* processSymbols, one item: its symbolOwnerMap.set calls, in order.
ItemOwnerWrites(uri, item, ownerId, fileId, systemParentId, includeFiles) ==
    LET id == getNodeId(uri, item)
        activeParent == IF includeFiles THEN ownerId ELSE systemParentId
        sub == Flatten(item.children)
    IN  IF IsClassKind(item.kind)
        THEN <<(<<id, id>>)>>
             \o [i \in DOMAIN item.children |->
                    <<getNodeId(uri, item.children[i]), id>>]
        ELSE IF IsMemberKind(item.kind)
        THEN IF ownerId = fileId /\ ~includeFiles
             THEN <<(<<id, id>>)>>
                  \o [i \in DOMAIN sub |-> <<getNodeId(uri, sub[i]), id>>]
             ELSE <<(<<id, activeParent>>)>>
                  \o [i \in DOMAIN sub |-> <<getNodeId(uri, sub[i]), activeParent>>]
        ELSE <<>>

\* processSymbols, one item: the _nodeIdMap.set calls of its _getNodeId calls.
ItemIdWrites(uri, item) ==
    LET sub == IF IsClassKind(item.kind) THEN item.children
               ELSE IF IsMemberKind(item.kind) THEN Flatten(item.children)
               ELSE <<>>
    IN  <<(<<NodeIdKey(uri, item.selLine), getNodeId(uri, item)>>)>>
        \o [i \in DOMAIN sub |->
               <<NodeIdKey(uri, sub[i].selLine), getNodeId(uri, sub[i])>>]

\* Concatenation of f(1), ..., f(n) for a function f of sequences.
RECURSIVE ConcatTo(_, _)
ConcatTo(f, n) == IF n = 0 THEN <<>> ELSE ConcatTo(f, n - 1) \o f[n]

ConcatAll(f) == ConcatTo(f, Len(f))

\* processSymbols(symbols, fileId, parentId || ROOT_ID) for one file.
processSymbols(uri, items, fileId, systemParentId, includeFiles) ==
    [nodes |-> ConcatAll([k \in DOMAIN items |->
                 ItemNodes(uri, items[k], fileId, fileId, systemParentId,
                           includeFiles)]),
     owners |-> ConcatAll([k \in DOMAIN items |->
                 ItemOwnerWrites(uri, items[k], fileId, fileId,
                                 systemParentId, includeFiles)]),
     ids |-> ConcatAll([k \in DOMAIN items |-> ItemIdWrites(uri, items[k])]),
     hasChildren |-> \E k \in DOMAIN items : IsClassKind(items[k].kind)]

\* The loop body of step 1 without the conversion of a file node to a leaf.
FileStep_NoLeaf(files, i, semanticMap, virtualRootLabel, includeFiles) ==
    LET fp == files[i].fsPath
        uri == Uri(fp)
        fileId == "file-" \o uri
        parentId == FileParentId(files, i, semanticMap, virtualRootLabel)
        ps == processSymbols(uri, files[i].symbols, fileId,
                             OrElse(parentId, ROOT_ID), includeFiles)
        groupNode == IF IsNewModule(files, i, semanticMap)
                     THEN <<FlowNode(GroupId(semanticMap[fp]), "group",
                                     UNDEFINED, semanticMap[fp], "system", <<>>)>>
                     ELSE <<>>
        fileNode == IF includeFiles
                    THEN <<FlowNode(fileId, "group", parentId, Basename(fp),
                                    "file", <<>>)>>
                    ELSE <<>>
    IN  [nodes |-> groupNode \o fileNode \o ps.nodes,
         owners |-> ps.owners, ids |-> ps.ids]

\* The loop body of step 1 for the file at position i.
FileStep(files, i, semanticMap, virtualRootLabel, includeFiles) ==
    LET fp == files[i].fsPath
        uri == Uri(fp)
        fileId == "file-" \o uri
        parentId == FileParentId(files, i, semanticMap, virtualRootLabel)
        ps == processSymbols(uri, files[i].symbols, fileId,
                             OrElse(parentId, ROOT_ID), includeFiles)
        groupNode == IF IsNewModule(files, i, semanticMap)
                     THEN <<FlowNode(GroupId(semanticMap[fp]), "group",
                                     UNDEFINED, semanticMap[fp], "system", <<>>)>>
                     ELSE <<>>
        fileNode == IF includeFiles
                    THEN <<FlowNode(fileId,
                                    IF ps.hasChildren THEN "group" ELSE "component",
                                    parentId, Basename(fp), "file", <<>>)>>
                    ELSE <<>>
    IN  [nodes |-> groupNode \o fileNode \o ps.nodes,
         owners |-> ps.owners, ids |-> ps.ids]

\* processCalls: the symbols probed, in order, and the _getNodeId calls made.
RECURSIVE processCalls(_, _, _)
processCalls(uri, items, acc) ==
    IF items = <<>> THEN acc
    ELSE LET item == Head(items)
             id == getNodeId(uri, item)
             ids == Append(acc.ids, <<NodeIdKey(uri, item.selLine), id>>)
         IN  IF id \in acc.visited
             THEN processCalls(uri, Tail(items), [acc EXCEPT !.ids = ids])
             ELSE processCalls(uri, Tail(items),
                     processCalls(uri, item.children,
                        [visited |-> acc.visited \cup {id},
                         probes |-> Append(acc.probes,
                                       [uri |-> uri, symbol |-> item, id |-> id]),
                         ids |-> ids]))

RECURSIVE AllProbes(_, _, _)
AllProbes(files, i, acc) ==
    IF i > Len(files) THEN acc
    ELSE AllProbes(files, i + 1,
                   processCalls(Uri(files[i].fsPath), files[i].symbols, acc))

\* A probe that asks the provider whatever the kind of the symbol.
IssuesQuery_AnyKind(probe, ownerMap) == MapHas(ownerMap, probe.id)

\* Whether _aggregateOutgoingCalls reaches its relationship queries
\* (executePrepareCallHierarchy, provideOutgoingCalls) for a symbol: it
\* returns before them when the symbol has no owner or is neither a method
\* nor a function.
IssuesQuery(probe, ownerMap) ==
    /\ MapHas(ownerMap, probe.id)
    /\ probe.symbol.kind \in {"Method", "Function"}

\* _aggregateOutgoingCalls that also records calls between symbols of one
\* owner.
aggregateOutgoingCalls_SameOwner(probe, ownerMap, nodeIdMap) ==
    IF ~IssuesQuery(probe, ownerMap) THEN <<>>
    ELSE LET sourceOwnerId == MapGet(ownerMap, probe.id)
             outgoing == probe.symbol.calls
             Fact(call) ==
                 LET targetKey == NodeIdKey(call.uri, call.line)
                 IN  IF ~MapHas(nodeIdMap, targetKey) THEN <<>>
                     ELSE LET targetNodeId == MapGet(nodeIdMap, targetKey)
                          IN  IF ~MapHas(ownerMap, targetNodeId) THEN <<>>
                              ELSE <<[source |-> sourceOwnerId,
                                      target |-> MapGet(ownerMap, targetNodeId),
                                      from |-> probe.id,
                                      desc |-> probe.symbol.name \o " -> "
                                                  \o call.name]>>
         IN  ConcatAll([k \in DOMAIN outgoing |-> Fact(outgoing[k])])

\* _aggregateOutgoingCalls for one probed symbol: the (edgeKey, callDesc)
\* pairs it adds to edgeMap, in order.
aggregateOutgoingCalls(probe, ownerMap, nodeIdMap) ==
    IF ~IssuesQuery(probe, ownerMap) THEN <<>>
    ELSE LET sourceOwnerId == MapGet(ownerMap, probe.id)
             outgoing == probe.symbol.calls
             Fact(call) ==
                 LET targetKey == NodeIdKey(call.uri, call.line)
                 IN  IF ~MapHas(nodeIdMap, targetKey) THEN <<>>
                     ELSE LET targetNodeId == MapGet(nodeIdMap, targetKey)
                          IN  IF ~MapHas(ownerMap, targetNodeId) THEN <<>>
                              ELSE LET targetOwnerId == MapGet(ownerMap, targetNodeId)
                                   IN  IF sourceOwnerId # targetOwnerId
                                       THEN <<[source |-> sourceOwnerId,
                                               target |-> targetOwnerId,
                                               from |-> probe.id,
                                               desc |-> probe.symbol.name \o " -> "
                                                           \o call.name]>>
                                       ELSE <<>>
         IN  ConcatAll([k \in DOMAIN outgoing |-> Fact(outgoing[k])])

\* The largest line a symbol of the snapshots starts at.
MaxLine == 9

\* String.prototype.split('|') on the ids that occur: an id built from a
\* symbol named "operator|" has two pieces, every other id has one.
BarIds ==
    {<<Uri(h[1]) \o "::operator|::" \o ToString(h[2]),
       <<Uri(h[1]) \o "::operator", "::" \o ToString(h[2])>> >> :
        h \in Files \X (0..MaxLine)}

SplitBar(s) ==
    IF \E b \in BarIds : b[1] = s
    THEN (CHOOSE b \in BarIds : b[1] = s)[2]
    ELSE <<s>>

\* `${sourceOwnerId}|${targetOwnerId}`, held as the pieces between its '|'
\* characters (two keys are the same string iff they have the same pieces).
EdgeKey(fact) == SplitBar(fact.source) \o SplitBar(fact.target)

\* Array.from of the Set filled with s[i], i in picked, in order: the distinct
\* values in the order they were first added.
RECURSIVE Distinct(_, _, _)
Distinct(s, picked, i) ==
    IF i > Len(s) THEN <<>>
    ELSE IF i \in picked /\ \A j \in 1..(i - 1) : j \in picked => s[j] # s[i]
    THEN <<s[i]>> \o Distinct(s, picked, i + 1)
    ELSE Distinct(s, picked, i + 1)

\* Keys of edgeMap in insertion order.
RECURSIVE FirstKeys(_, _)
FirstKeys(facts, seen) ==
    IF facts = <<>> THEN <<>>
    ELSE LET key == EdgeKey(Head(facts))
         IN  IF key \in seen THEN FirstKeys(Tail(facts), seen)
             ELSE <<key>> \o FirstKeys(Tail(facts), seen \cup {key})

\* The edge edgeMap.forEach pushes for one key: const [source, target] =
\* key.split('|'); none when source equals target.
EdgeOfKey(facts, key) ==
    IF key[1] # key[2]
    THEN <<FlowEdge(key[1], key[2],
                    IF Cardinality({k \in DOMAIN facts : EdgeKey(facts[k]) = key}) > 1
                    THEN ToString(Cardinality({k \in DOMAIN facts :
                                                 EdgeKey(facts[k]) = key}))
                            \o " calls"
                    ELSE UNDEFINED,
                    Distinct([k \in DOMAIN facts |-> facts[k].desc],
                             {j \in DOMAIN facts : EdgeKey(facts[j]) = key}, 1))>>
    ELSE <<>>

EdgesOfKeys(facts, keys) ==
    ConcatAll([k \in DOMAIN keys |-> EdgeOfKey(facts, keys[k])])

\* edgeMap.forEach: one edge per key whose source differs from its target.
EdgesOfFacts(facts) == EdgesOfKeys(facts, FirstKeys(facts, {}))

\* Step 2 and the return value, given what step 1 left: the root node, the
\* per-file results, symbolOwnerMap, and the walk of processCalls.
RunOfFacts(rootNode, steps, symbolOwnerMap, walk, facts) ==
    [nodes |-> rootNode \o ConcatAll([i \in DOMAIN steps |-> steps[i].nodes]),
     edges |-> EdgesOfFacts(facts),
     symbolOwnerMap |-> symbolOwnerMap,
     nodeIdMap |-> walk.ids,
     probes |-> walk.probes,
     queries |-> SelectSeq(walk.probes, LAMBDA p : IssuesQuery(p, symbolOwnerMap)),
     facts |-> facts]

RunOfWalk(rootNode, steps, symbolOwnerMap, walk) ==
    RunOfFacts(rootNode, steps, symbolOwnerMap, walk,
               ConcatAll([k \in DOMAIN walk.probes |->
                  aggregateOutgoingCalls(walk.probes[k], symbolOwnerMap, walk.ids)]))

RunOfSteps(files, rootNode, steps, start) ==
    RunOfWalk(rootNode, steps,
              ConcatAll([i \in DOMAIN steps |-> steps[i].owners]),
              AllProbes(files, 1,
                  [visited |-> start.visited, probes |-> <<>>,
                   ids |-> start.ids
                              \o ConcatAll([i \in DOMAIN steps |-> steps[i].ids])]))

\* The state of a GraphService instance: _nodeIdMap, empty at construction.
ServiceInit == [nodeIdMap |-> <<>>]

\* The instance a finished run leaves behind.
ServiceAfter(run) == [nodeIdMap |-> run.nodeIdMap]

\* A run that takes the ids left in _nodeIdMap for symbols already visited.
StartOfRun_Stale(service) ==
    [visited |-> {service.nodeIdMap[k][2] : k \in DOMAIN service.nodeIdMap},
     ids |-> service.nodeIdMap]

\* What a run starts from on a used instance: this._nodeIdMap.clear() and
\* a new visitedSymbols set.
StartOfRun(service) == [visited |-> {}, ids |-> <<>>]

\* One run of generateGraph on an instance, with its working maps.  files:
\* sequence of [fsPath, symbols].  The relationship queries complete in
\* document order.
GraphRunOn(service, files, semanticMap, virtualRootLabel, includeFiles) ==
    RunOfSteps(files,
               IF Truthy(virtualRootLabel)
               THEN <<FlowNode(ROOT_ID, "group", UNDEFINED, virtualRootLabel,
                               "system", <<>>)>>
               ELSE <<>>,
               [i \in DOMAIN files |->
                   FileStep(files, i, semanticMap, virtualRootLabel, includeFiles)],
               StartOfRun(service))

\* The first run of an instance.
GraphRun(files, semanticMap, virtualRootLabel, includeFiles) ==
    GraphRunOn(ServiceInit, files, semanticMap, virtualRootLabel, includeFiles)

\* What generateGraph returns: { nodes, edges }.
GraphOf(run) == [nodes |-> run.nodes, edges |-> run.edges]

generateGraph(files, semanticMap, virtualRootLabel, includeFiles) ==
    GraphOf(GraphRun(files, semanticMap, virtualRootLabel, includeFiles))

\* BlockManager._loadSymbolsForFiles
loadSymbolsForFiles(filePaths) ==
    LET ok == SelectSeq(filePaths, LAMBDA fp : fp \in Loadable)
    IN  [i \in DOMAIN ok |-> [fsPath |-> ok[i], symbols |-> WorkspaceSymbols(ok[i])]]

(***************************************************************************)
(* Responses of the inference collaborator (external, unvalidated).        *)
(***************************************************************************)
\* What generateSystemFlow's LLM call can return for the workspace: systems
\* with their files; "s2" names a file that cannot be opened.
SystemFlowData ==
    [nodes |-> <<ProcNode("s1", "Core", "system", <<2, 1>>),
                 ProcNode("s2", "Store", "Database", <<3>>)>>,
     edges |-> <<ProcEdge("s1", "s2", "reads")>>]

\* What generateSubsystemFlow's LLM call can return: a flow whose process
\* step has no label, a one-node flow, and the empty flow _parseJson yields
\* for unusable output.
SubsystemFlowData ==
    [nodes |-> <<ProcNode("1", "Receive", "start", <<>>),
                 ProcNode("2", "", "process", <<1>>)>>,
     edges |-> <<ProcEdge("1", "2", "next")>>]

TrivialFlowData ==
    [nodes |-> <<ProcNode("1", "Only", "process", <<2>>)>>, edges |-> <<>>]

EmptyFlowData == [nodes |-> <<>>, edges |-> <<>>]

\* Outcome of one call of the collaborator: no API key configured, the call
\* throws, or it returns data.
LLMOutcome(kind, data) == [kind |-> kind, data |-> data]

SubsystemOutcomes ==
    {LLMOutcome("nokey", EmptyFlowData), LLMOutcome("throw", EmptyFlowData),
     LLMOutcome("data", SubsystemFlowData), LLMOutcome("data", TrivialFlowData),
     LLMOutcome("data", EmptyFlowData)}

SystemOutcomes ==
    {LLMOutcome("nokey", EmptyFlowData), LLMOutcome("throw", EmptyFlowData),
     LLMOutcome("data", SystemFlowData), LLMOutcome("data", EmptyFlowData)}

\* A Promise<ProcessGraphData | null>: isNull tells null from data.
Maybe(isNull, data) == [isNull |-> isNull, data |-> data]

\* ProcessInferenceService.generateSubsystemFlow.  cache is _cache (sorted
\* paths -> data); sameChecksum tells whether the files' mtimes are those of
\* the cached entry.  filePaths is sorted in place once the key is present.
generateSubsystemFlow(filePaths, cache, outcome, sameChecksum) ==
    IF outcome.kind = "nokey" \/ Len(filePaths) = 0
    THEN [result |-> Maybe(TRUE, EmptyFlowData), cache |-> cache,
          filePaths |-> filePaths]
    ELSE LET sortedPaths == SortPaths(filePaths)
         IN  IF sortedPaths \in DOMAIN cache /\ sameChecksum
             THEN [result |-> Maybe(FALSE, cache[sortedPaths]), cache |-> cache,
                   filePaths |-> sortedPaths]
             ELSE IF outcome.kind = "throw"
             THEN [result |-> Maybe(TRUE, EmptyFlowData), cache |-> cache,
                   filePaths |-> sortedPaths]
             ELSE [result |-> Maybe(FALSE, outcome.data),
                   cache |-> [k \in DOMAIN cache \cup {sortedPaths} |->
                                 IF k = sortedPaths THEN outcome.data ELSE cache[k]],
                   filePaths |-> sortedPaths]

\* ProcessInferenceService.generateSystemFlow (its cache is not modelled:
\* a cached answer is one of the answers the collaborator can give).
generateSystemFlow(paths, outcome) ==
    IF outcome.kind \in {"nokey", "throw"} \/ Len(paths) = 0
    THEN Maybe(TRUE, EmptyFlowData)
    ELSE Maybe(FALSE, outcome.data)

\* ArchitectureInferenceService.inferModules: the maps it can return for the
\* cached files (heuristic classifier, or the collaborator's partial map).
ArchMaps ==
    {[fp \in {1, 2} |-> "Core / Utilities"], [fp \in {1} |-> "Data Layer"]}

\* BlockManager._fileCache after the workspace scan.
CachedFiles == <<1, 2>>

(***************************************************************************)
(* BlockManager: the drillDown handler and _refreshGraph.                  *)
(***************************************************************************)
\* Variant accepting a one-node flow.
IsValidFlow_AnyNode(subsystemData) ==
    ~subsystemData.isNull /\ Len(subsystemData.data.nodes) > 0

\* subsystemData && subsystemData.nodes && subsystemData.nodes.length > 1
IsValidFlow(subsystemData) ==
    ~subsystemData.isNull /\ Len(subsystemData.data.nodes) > 1

\* A published message: posted is FALSE when the handler ends without
\* calling updateGraph.
Publication(posted, data) == [posted |-> posted, data |-> data]

NoGraph == [nodes |-> <<>>, edges |-> <<>>]

\* The process branch (LEVEL 2: COMPONENT GRAPH).
ProcessBranch(filePaths, label) ==
    LET filesToAnalyze == loadSymbolsForFiles(filePaths)
    IN  IF Len(filesToAnalyze) > 0
        THEN Publication(TRUE, generateGraph(filesToAnalyze, NoSemanticMap, label, FALSE))
        ELSE Publication(FALSE, NoGraph)

\* The system branch (LEVEL 1: PROCESS FLOW) after generateSubsystemFlow
\* returned sub; filePaths is the list as that call left it.
SystemBranch(filePaths, label, subsystemData) ==
    IF IsValidFlow(subsystemData)
    THEN Publication(TRUE, convertProcessToReactFlow(subsystemData.data))
    ELSE LET heuristicData == generateHeuristicFlow(filePaths, OrElse(label, "Process"))
         IN  IF Len(heuristicData.nodes) > 0
             THEN Publication(TRUE, convertProcessToReactFlow(heuristicData))
             ELSE Publication(TRUE,
                     generateGraph(loadSymbolsForFiles(filePaths), NoSemanticMap,
                                   label, FALSE))

\* BlockManager._refreshGraph: the graph it publishes.
refreshGraph(outcome, archMap) ==
    LET processData == generateSystemFlow(CachedFiles, outcome)
    IN  IF ~processData.isNull /\ Len(processData.data.nodes) > 0
        THEN convertProcessToReactFlow(processData.data)
        ELSE generateGraph(loadSymbolsForFiles(CachedFiles), archMap, UNDEFINED, FALSE)

(***************************************************************************)
(* The webview controller: pure parts.                                     *)
(***************************************************************************)
knownTypes == {"group", "component", "system", "process", "decision", "start", "end"}

\* String.prototype.toLowerCase on the type names that occur.
ToLowerCase(t) ==
    CASE t = "Database" -> "database"
      [] t = "System" -> "system"
      [] OTHER -> t

\* FRONTEND DATA NORMALIZATION of one node.
SafeNode(n) ==
    LET type == ToLowerCase(OrElse(n.type, "process"))
        safe == IF type \in knownTypes THEN type ELSE "process"
    IN  [n EXCEPT !.type = safe, !.data.type = safe]

SafeNodes(rNodes) == [i \in DOMAIN rNodes |-> SafeNode(rNodes[i])]

\* A step 1 that takes every node for visible.
VisibleNodes_AllShown(n, expandedIds) == {n[i].id : i \in DOMAIN n}

\* getLayoutedElements, step 1: the visible node ids.
VisibleNodes(n, expandedIds) ==
    {n[i].id : i \in {j \in DOMAIN n :
        ~Truthy(n[j].parentNode) \/ n[j].parentNode \in expandedIds}}

\* node.data.description, undefined when the node carries none.
DescriptionOf(node) ==
    IF "description" \in DOMAIN node.data THEN node.data.description
    ELSE UNDEFINED

Max2(a, b) == IF a >= b THEN a ELSE b

\* getLayoutedElements, step 2: the width and height a visible node is
\* given in dagreGraph.setNode.
NodeSize(node, expandedIds) ==
    IF node.type = "group" \/ node.type = "system"
    THEN IF node.id \in expandedIds
         THEN [width |-> 10, height |-> 10]
         ELSE [width |-> 300, height |-> 100]
    ELSE [width |-> Max2(180,
                     Max2((IF Truthy(node.data.label) THEN Len(node.data.label)
                           ELSE 10) * 9,
                          (IF Truthy(DescriptionOf(node))
                           THEN Len(DescriptionOf(node)) ELSE 0) * 6)),
          height |-> IF Truthy(DescriptionOf(node)) THEN 100 ELSE 70]

\* getLayoutedElements, steps 2 and 3: the graph dagre.layout works on,
\* with the visible nodes and the edges between two visible nodes.
DagreGraph(n, e, expandedIds) ==
    [nodes |-> {[id |-> n[i].id, size |-> NodeSize(n[i], expandedIds)] :
                  i \in {j \in DOMAIN n : n[j].id \in VisibleNodes(n, expandedIds)}},
     edges |-> {<<e[i].source, e[i].target>> :
                  i \in {j \in DOMAIN e :
                            /\ e[j].source \in VisibleNodes(n, expandedIds)
                            /\ e[j].target \in VisibleNodes(n, expandedIds)}}]

\* getLayoutedElements: the nodes handed to the renderer (hidden flag only).
getLayoutedElements(n, e, expandedIds) ==
    [nodes |-> [i \in DOMAIN n |->
                   [id |-> n[i].id, type |-> n[i].type,
                    parentNode |-> n[i].parentNode, data |-> n[i].data,
                    hidden |-> n[i].id \notin VisibleNodes(n, expandedIds)]],
     edges |-> e]

\* The filter at the head of handleMessage: TRUE when the update is ignored.
\* closureViewStack is the viewStack the handler's closure holds.
IsIgnored(message, activeRequest, closureViewStack) ==
    IF Truthy(activeRequest)
    THEN message.requestId # activeRequest
    ELSE Len(closureViewStack) > 0

\* Auto-Expand Logic that starts from an empty set on every update.
NextExpanded_Reset(safeNodes, expandedRef) ==
    LET rootNodes == SelectSeq(safeNodes, LAMBDA n : ~Truthy(n.parentNode))
    IN  IF Len(rootNodes) = 1
        THEN {rootNodes[1].id}
        ELSE {}

\* Auto-Expand Logic of handleMessage.
NextExpanded(safeNodes, expandedRef) ==
    LET rootNodes == SelectSeq(safeNodes, LAMBDA n : ~Truthy(n.parentNode))
    IN  IF Len(rootNodes) = 1 /\ Cardinality(expandedRef) = 0
        THEN expandedRef \cup {rootNodes[1].id}
        ELSE expandedRef

(***************************************************************************)
(* State.                                                                  *)
(***************************************************************************)
VARIABLES
    \* CallGraphContent (webview)
    rawNodes,          \* useState rawNodes
    rawEdges,          \* useState rawEdges
    nodes,             \* useNodesState: the layouted nodes on screen
    currentLabel,      \* useState currentLabel
    viewStack,         \* useState viewStack
    activeRequestId,   \* useRef activeRequestId
    expandedIdsRef,    \* useRef expandedIdsRef
    isLoading,         \* useState isLoading
    \* environment and backend
    now,               \* the value Date.now() returned last
    pending,           \* drillDown messages whose handler is running
    inbox,             \* updateGraph messages posted to the webview, in order
    cache,             \* ProcessInferenceService._cache
    \* history (not program state)
    issued,            \* every drillDown message sent, in order
    published,         \* ordinals of the requests an updateGraph was posted for
    finished,          \* ordinals of the requests whose handler has returned
    cancelled,         \* ordinals of the requests unanswered at some Back
    superseded,        \* ordinals of the requests unanswered at a later drill
    delivered,         \* ordinals of the requests whose response reached the webview
    origin,            \* what was on screen at each drill not yet undone
    appliedDepth,      \* applied drill-down responses not yet undone by Back
    lastAnswer,        \* what the drillDown handler that returned last did
    \* one call of generateHeuristicFlow: arguments, result, returned
    hFiles, hLabel, hFlow, hDone,
    \* one call of generateGraph: the batch (paths and the calls the
    \* call-hierarchy provider reports), the other arguments, the run, returned
    gPaths, gCalls, gSemanticMap, gRootLabel, gIncludeFiles, gRun, gDone,
    gRerun, gRerunDone,
    \* step 2 of one call of generateGraph, query by query: the symbols whose
    \* queries fail, how far the call is, what step 1 and the processCalls
    \* walk left, the promises not yet settled, edgeMap, the edges built
    aFails, aStage, aWalk, callsPromises, edgeMap, aEdges,
    \* one call of getLayoutedElements: arguments, result, returned
    \* and the graph handed to dagre.layout during the call
    lNodes, lEdges, lExpandedIds, lResult, lDone, lDagre,
    \* BlockManager._isBlockMode and ._fileCache (keys), the calls of
    \* _scanWorkspace started so far with where each one is, and how often
    \* the mode was switched by the user
    isBlockMode, fileCache, scans, toggles,
    \* GraphService._nodeIdMap of the one instance the BlockManager holds,
    \* and the calls of generateGraph made on it, each with how far it is
    svcNodeIdMap, oRuns

viewVars == <<rawNodes, rawEdges, nodes, currentLabel, viewStack,
              activeRequestId, expandedIdsRef, isLoading>>
backVars == <<pending, inbox, cache>>
histVars == <<issued, published, finished, cancelled, superseded, delivered,
              origin, appliedDepth, lastAnswer>>
heurVars == <<hFiles, hLabel, hFlow, hDone>>
graphVars == <<gPaths, gCalls, gSemanticMap, gRootLabel, gIncludeFiles, gRun,
               gDone, gRerun, gRerunDone>>
settleVars == <<aFails, aStage, aWalk, callsPromises, edgeMap, aEdges>>
layoutVars == <<lNodes, lEdges, lExpandedIds, lResult, lDone, lDagre>>
scanVars == <<isBlockMode, fileCache, scans, toggles>>
overlapVars == <<svcNodeIdMap, oRuns>>
vars == <<viewVars, now, backVars, histVars, heurVars, graphVars, settleVars,
          layoutVars, scanVars, overlapVars>>

\* The graph on screen.
Display == [nodes |-> rawNodes, edges |-> rawEdges]

ViewFrame(n, e, label) == [nodes |-> n, edges |-> e, label |-> label]

\* A message that is posted without its token.
UpdateGraph_NoToken(data, requestId, n) == [data |-> data, requestId |-> UNDEFINED, n |-> n]

\* { command: 'updateGraph', data, requestId }; n is the ordinal of the
\* drill request it answers, 0 for a background refresh.
UpdateGraph(data, requestId, n) == [data |-> data, requestId |-> requestId, n |-> n]

\* { command: 'drillDown', filePaths, label, nodeType, requestId }
DrillDown(filePaths, label, nodeType, requestId, n) ==
    [filePaths |-> filePaths, label |-> label, nodeType |-> nodeType,
     requestId |-> requestId, n |-> n]

\* History of one run of the drillDown handler: the message, what
\* generateSubsystemFlow returned, the file list after it, what was posted.
Answer(message, sub, paths, pub) ==
    [message |-> message, sub |-> sub, paths |-> paths, pub |-> pub]

NoInference == Maybe(TRUE, EmptyFlowData)
NoAnswer ==
    Answer(DrillDown(<<>>, "", "", UNDEFINED, 0), NoInference, <<>>,
           Publication(FALSE, NoGraph))

\* The viewStack inside handleMessage: the handler is registered once by
\* useEffect(..., []), so it holds the first render's (empty) stack.
closureViewStack == <<>>

Unanswered == {k \in 1..Len(issued) : k \notin delivered}

\* No call of generateGraph under way.
NoRun == [nodes |-> <<>>, edges |-> <<>>, symbolOwnerMap |-> <<>>,
          nodeIdMap |-> <<>>, probes |-> <<>>, queries |-> <<>>,
          facts |-> <<>>]

GraphIdle ==
    /\ gPaths = <<>>
    /\ gCalls = {}
    /\ gSemanticMap = NoSemanticMap
    /\ gRootLabel = UNDEFINED
    /\ gIncludeFiles = FALSE
    /\ gRun = NoRun
    /\ gDone = FALSE
    /\ gRerun = NoRun
    /\ gRerunDone = FALSE

\* No step 2 under way.
NoWalk == [queries |-> <<>>, symbolOwnerMap |-> <<>>, nodeIdMap |-> <<>>]

SettleIdle ==
    /\ aFails = {}
    /\ aStage = "idle"
    /\ aWalk = NoWalk
    /\ callsPromises = {}
    /\ edgeMap = <<>>
    /\ aEdges = <<>>

\* No call of getLayoutedElements under way.
NoLayout == [nodes |-> <<>>, edges |-> <<>>]
NoDagre == [nodes |-> {}, edges |-> {}]

LayoutIdle ==
    /\ lNodes = <<>>
    /\ lEdges = <<>>
    /\ lExpandedIds = {}
    /\ lResult = NoLayout
    /\ lDone = FALSE
    /\ lDagre = NoDagre

\* The BlockManager after construction: block mode off, nothing cached, no
\* scan started.
ScanIdle ==
    /\ isBlockMode = FALSE
    /\ fileCache = {}
    /\ scans = <<>>
    /\ toggles = 0

\* The GraphService after construction, no call made on it.
OverlapIdle ==
    /\ svcNodeIdMap = <<>>
    /\ oRuns = <<>>

HeurIdle ==
    /\ hFiles = <<>>
    /\ hLabel = ""
    /\ hFlow = EmptyFlowData
    /\ hDone = FALSE

\* The webview after construction: nothing on screen, the overlay up.
ViewInit ==
    /\ rawNodes = <<>>
    /\ rawEdges = <<>>
    /\ nodes = <<>>
    /\ currentLabel = "System Overview"
    /\ viewStack = <<>>
    /\ activeRequestId = NULL
    /\ expandedIdsRef = {}
    /\ isLoading = TRUE
    /\ now = 0

\* No drill-down has happened.
HistInit ==
    /\ published = {}
    /\ finished = {}
    /\ cancelled = {}
    /\ superseded = {}
    /\ delivered = {}
    /\ origin = <<>>
    /\ appliedDepth = 0
    /\ lastAnswer = NoAnswer

Init ==
    /\ ViewInit
    /\ pending = {}
    /\ inbox = <<>>
    /\ cache = [k \in {} |-> EmptyFlowData]
    /\ issued = <<>>
    /\ HistInit
    /\ HeurIdle
    /\ GraphIdle
    /\ SettleIdle
    /\ LayoutIdle
    /\ ScanIdle
    /\ OverlapIdle

(***************************************************************************)
(* Events.                                                                 *)
(***************************************************************************)
\* Every graph _refreshGraph can publish for the cached files.
RefreshGraphs ==
    {refreshGraph(outcome, archMap) : outcome \in SystemOutcomes, archMap \in ArchMaps}

\* BlockManager._refreshGraph (after a scan, a save or an editor change).
RefreshGraph(data) ==
    /\ Len(inbox) < MaxInbox
    /\ inbox' = Append(inbox, UpdateGraph(data, UNDEFINED, 0))
    /\ UNCHANGED <<viewVars, now, pending, cache, histVars, heurVars,
                   graphVars, settleVars, layoutVars, scanVars, overlapVars>>

\* handleMessage for the updateGraph message at the head of the inbox.
handleMessage ==
    /\ inbox # <<>>
    /\ LET message == Head(inbox)
           safeNodes == SafeNodes(message.data.nodes)
           nextExpanded == NextExpanded(safeNodes, expandedIdsRef)
       IN  /\ inbox' = Tail(inbox)
           /\ delivered' = delivered \cup ({message.n} \ {0})
           /\ IF IsIgnored(message, activeRequestId, closureViewStack)
              THEN UNCHANGED <<viewVars, appliedDepth>>
              ELSE /\ isLoading' = FALSE
                   /\ rawNodes' = safeNodes
                   /\ rawEdges' = message.data.edges
                   /\ expandedIdsRef' = nextExpanded
                   /\ nodes' = getLayoutedElements(safeNodes, message.data.edges,
                                                   nextExpanded).nodes
                   /\ appliedDepth' = IF Truthy(message.requestId)
                                         /\ message.requestId = activeRequestId
                                      THEN appliedDepth + 1 ELSE appliedDepth
                   /\ UNCHANGED <<currentLabel, viewStack, activeRequestId>>
    /\ UNCHANGED <<now, pending, cache, issued, published, finished,
                   cancelled, superseded, origin, lastAnswer, heurVars,
                   graphVars, settleVars, layoutVars, scanVars, overlapVars>>

\* Date.now().toString() when the clock reads t.
DateNowString(t) == ToString(t)

\* onNodeDoubleClick, branch 1 with files: drill down.  t is what Date.now()
\* returns: the value of the last reading, or a later one.
DrillInto(node, t) ==
    LET requestId == DateNowString(t)
        n == Len(issued) + 1
        message == DrillDown(node.data.files, node.data.label, node.type, requestId, n)
    IN  /\ viewStack' = Append(viewStack, ViewFrame(rawNodes, rawEdges, currentLabel))
        /\ currentLabel' = node.data.label
        /\ activeRequestId' = requestId
        /\ pending' = pending \cup {message}
        /\ isLoading' = TRUE
        /\ now' = t
        /\ issued' = Append(issued, message)
        /\ superseded' = superseded \cup Unanswered
        /\ origin' = Append(origin, [nodes |-> rawNodes, edges |-> rawEdges,
                                     label |-> currentLabel])
        /\ UNCHANGED <<rawNodes, rawEdges, nodes, expandedIdsRef, inbox,
                       cache, published, finished, cancelled,
                       delivered, appliedDepth, lastAnswer, heurVars,
                   graphVars, settleVars, layoutVars, scanVars, overlapVars>>

\* Variant that records the toggled set but lays out on the set before it.
ToggleExpansion_StaleLayout(node) ==
    LET newExpanded == IF node.id \in expandedIdsRef
                       THEN expandedIdsRef \ {node.id}
                       ELSE expandedIdsRef \cup {node.id}
    IN  /\ expandedIdsRef' = newExpanded
        /\ nodes' = getLayoutedElements(rawNodes, rawEdges, expandedIdsRef).nodes
        /\ UNCHANGED <<rawNodes, rawEdges, currentLabel, viewStack,
                       activeRequestId, isLoading, now, backVars, histVars,
                       heurVars,
                   graphVars, settleVars, layoutVars, scanVars, overlapVars>>

\* onNodeDoubleClick, branch 2: toggle the expansion of a group node.
ToggleExpansion(node) ==
    LET newExpanded == IF node.id \in expandedIdsRef
                       THEN expandedIdsRef \ {node.id}
                       ELSE expandedIdsRef \cup {node.id}
    IN  /\ expandedIdsRef' = newExpanded
        /\ nodes' = getLayoutedElements(rawNodes, rawEdges, newExpanded).nodes
        /\ UNCHANGED <<rawNodes, rawEdges, currentLabel, viewStack,
                       activeRequestId, isLoading, now, backVars, histVars,
                       heurVars,
                   graphVars, settleVars, layoutVars, scanVars, overlapVars>>

\* onNodeDoubleClick, the branches that only post jumpTo (or do nothing).
JumpTo == UNCHANGED vars

\* Variant that drills into a system or process node whatever its files.
onNodeDoubleClick_NoFilesCheck(node, t) ==
    IF node.type = "system" \/ node.type = "process"
    THEN Len(issued) < MaxDrills /\ DrillInto(node, t)
    ELSE IF node.type = "group"
    THEN ToggleExpansion(node)
    ELSE JumpTo

\* onNodeDoubleClick on a node that is on screen.
onNodeDoubleClick(node, t) ==
    IF node.type = "system" \/ node.type = "process"
    THEN IF Len(node.data.files) = 0
         THEN JumpTo
         ELSE Len(issued) < MaxDrills /\ DrillInto(node, t)
    ELSE IF node.type = "group"
    THEN ToggleExpansion(node)
    ELSE JumpTo

\* Variant that restores the graph of the frame but keeps the label.
goBack_KeepsLabel ==
    IF Len(viewStack) = 0
    THEN UNCHANGED vars
    ELSE LET prev == viewStack[Len(viewStack)]
         IN  /\ activeRequestId' = NULL
             /\ rawNodes' = prev.nodes
             /\ rawEdges' = prev.edges
             /\ nodes' = getLayoutedElements(prev.nodes, prev.edges, {}).nodes
             /\ viewStack' = SubSeq(viewStack, 1, Len(viewStack) - 1)
             /\ currentLabel' = currentLabel
             /\ cancelled' = cancelled \cup Unanswered
             /\ origin' = SubSeq(origin, 1, Len(origin) - 1)
             /\ appliedDepth' = IF appliedDepth > 0 THEN appliedDepth - 1 ELSE 0
             /\ UNCHANGED <<expandedIdsRef, isLoading, now, backVars, issued,
                            published, finished, superseded, delivered,
                            lastAnswer, heurVars,
                   graphVars, settleVars, layoutVars, scanVars, overlapVars>>

\* goBack (the Back button).
goBack ==
    IF Len(viewStack) = 0
    THEN UNCHANGED vars
    ELSE LET prev == viewStack[Len(viewStack)]
         IN  /\ activeRequestId' = NULL
             /\ rawNodes' = prev.nodes
             /\ rawEdges' = prev.edges
             /\ nodes' = getLayoutedElements(prev.nodes, prev.edges, {}).nodes
             /\ viewStack' = SubSeq(viewStack, 1, Len(viewStack) - 1)
             /\ currentLabel' = prev.label
             /\ cancelled' = cancelled \cup Unanswered
             /\ origin' = SubSeq(origin, 1, Len(origin) - 1)
             /\ appliedDepth' = IF appliedDepth > 0 THEN appliedDepth - 1 ELSE 0
             /\ UNCHANGED <<expandedIdsRef, isLoading, now, backVars, issued,
                            published, finished, superseded, delivered,
                            lastAnswer, heurVars,
                   graphVars, settleVars, layoutVars, scanVars, overlapVars>>

\* CallGraphPanel.onMessage for one drillDown message: the whole handler.
onMessage(message, outcome, sameChecksum) ==
    LET isProcess == message.nodeType = "process"
        sub == IF isProcess
               THEN [result |-> NoInference, cache |-> cache,
                     filePaths |-> message.filePaths]
               ELSE generateSubsystemFlow(message.filePaths, cache, outcome,
                                          sameChecksum)
        pub == IF isProcess
               THEN ProcessBranch(message.filePaths, message.label)
               ELSE SystemBranch(sub.filePaths, message.label, sub.result)
    IN  /\ message \in pending
        /\ Len(inbox) < MaxInbox
        /\ pending' = pending \ {message}
        /\ cache' = sub.cache
        /\ inbox' = IF pub.posted
                    THEN Append(inbox, UpdateGraph(pub.data, message.requestId, message.n))
                    ELSE inbox
        /\ published' = IF pub.posted THEN published \cup {message.n} ELSE published
        /\ finished' = finished \cup {message.n}
        /\ lastAnswer' = Answer(message, sub.result, sub.filePaths, pub)
        /\ UNCHANGED <<viewVars, now, issued, cancelled, superseded,
                       delivered, origin, appliedDepth, heurVars,
                   graphVars, settleVars, layoutVars, scanVars, overlapVars>>

\* The nodes a double click can land on.  While isLoading the LOADING OVERLAY
\* covers the map and takes the pointer events, so there is none; the Back
\* button is a button element and stays reachable from the keyboard.
OnScreen ==
    IF isLoading
    THEN {}
    ELSE {nodes[i] : i \in {j \in DOMAIN nodes : ~nodes[j].hidden}}

\* The values Date.now() can return at the next reading: the millisecond of
\* the last reading, or a later one.
ClockReadings == {now, now + 1}

\* The backend handles one of the drillDown messages it has received.  The
\* process branch does not consult the collaborator.
Backend ==
    \E message \in pending :
        IF message.nodeType = "process"
        THEN onMessage(message, LLMOutcome("nokey", EmptyFlowData), TRUE)
        ELSE \E outcome \in SubsystemOutcomes, sameChecksum \in BOOLEAN :
                onMessage(message, outcome, sameChecksum)

Next ==
    \/ \E data \in RefreshGraphs : RefreshGraph(data)
    \/ handleMessage
    \/ \E node \in OnScreen, t \in ClockReadings : onNodeDoubleClick(node, t)
    \/ goBack
    \/ Backend

Spec == Init /\ [][Next]_vars

(***************************************************************************)
(* The drillDown handler on its own: one message for a system node, of any *)
(* content the webview can send (a node's files and label come from the    *)
(* collaborator), the inference cache as an earlier call may have left it. *)
(***************************************************************************)
\* The file lists of length lo..hi.
FileLists(lo, hi) == UNION {[1..m -> Files] : m \in lo..hi}

DrillLabels == {"", "Core"}

DrillMessages ==
    {DrillDown(filePaths, label, "system", "0", 1) :
        filePaths \in FileLists(1, MaxPaths), label \in DrillLabels}

\* _cache holding at most one entry, written by an earlier call.
Caches ==
    {[k \in {} |-> EmptyFlowData]}
    \cup {[k \in {SortPaths(q)} |-> d] :
              q \in FileLists(1, MaxPaths),
              d \in {SubsystemFlowData, TrivialFlowData, EmptyFlowData}}

InitDrill ==
    /\ ViewInit
    /\ \E message \in DrillMessages :
           /\ pending = {message}
           /\ issued = <<message>>
    /\ inbox = <<>>
    /\ cache \in Caches
    /\ HistInit
    /\ HeurIdle
    /\ GraphIdle
    /\ SettleIdle
    /\ LayoutIdle
    /\ ScanIdle
    /\ OverlapIdle

SpecDrill == InitDrill /\ [][Backend]_vars

(***************************************************************************)
(* generateHeuristicFlow on its own: every file list up to MaxHeurFiles.   *)
(***************************************************************************)
HeurLabels == {"Core", "Process"}

InitHeur ==
    /\ ViewInit
    /\ pending = {}
    /\ inbox = <<>>
    /\ cache = [k \in {} |-> EmptyFlowData]
    /\ issued = <<>>
    /\ HistInit
    /\ hFiles \in FileLists(0, MaxHeurFiles)
    /\ hLabel \in HeurLabels
    /\ hFlow = EmptyFlowData
    /\ hDone = FALSE
    /\ GraphIdle
    /\ SettleIdle
    /\ LayoutIdle
    /\ ScanIdle
    /\ OverlapIdle

\* One call generateHeuristicFlow(hFiles, hLabel).
CallHeuristic ==
    /\ ~hDone
    /\ hFlow' = generateHeuristicFlow(hFiles, hLabel)
    /\ hDone' = TRUE
    /\ UNCHANGED <<viewVars, now, backVars, histVars, hFiles, hLabel, graphVars, settleVars, layoutVars, scanVars, overlapVars>>

SpecHeur == InitHeur /\ [][CallHeuristic]_vars

(***************************************************************************)
(* GraphService.generateGraph alone, on every batch of a small universe.   *)
(***************************************************************************)
MaxCalls == 2

\* A call the call-hierarchy provider can report: the calling symbol (file,
\* name, range.start.line) and the call.to it reports.
Reported(fp, name, line, to) == [fp |-> fp, name |-> name, line |-> line, to |-> to]

CallUniverse ==
    <<Reported(1, "m", 1, Call(Uri(2), 0, "g")),
      Reported(1, "m", 1, Call(Uri(1), 3, "n")),
      Reported(1, "operator|", 5, Call(Uri(2), 2, "g")),
      Reported(1, "operator|", 5, Call(Uri(1), 7, "h")),
      Reported(2, "g", 0, Call(Uri(1), 7, "h")),
      Reported(2, "g", 2, Call(Uri(1), 7, "h")),
      Reported(2, "g", 0, Call(Uri(1), 5, "operator|")),
      Reported(2, "g", 0, Call(Uri(9), 0, "ext")),
      Reported(2, "nf", 7, Call(Uri(1), 7, "h")),
      Reported(1, "v", 8, Call(Uri(1), 3, "n"))>>

\* The outgoing calls reported for a symbol, of the calls drawn.
CallsOf(fp, name, line, calls) ==
    LET mine == SelectSeq(CallUniverse,
                    LAMBDA c : c \in calls /\ c.fp = fp /\ c.name = name /\ c.line = line)
    IN  [i \in DOMAIN mine |-> mine[i].to]

\* A symbol of file fp with the calls reported for it.
BatchSym(fp, name, kind, line, children, calls) ==
    Sym(name, kind, line, children, CallsOf(fp, name, line, calls))

\* The entity trees of the batch universe: a class with two methods, one of
\* them with a nested variable; top-level functions, two of them overloads
\* of one name, one an operator; a constant; a namespace with a function;
\* an interface with two signatures of one method on one line.
BatchSymbols(fp, calls) ==
    CASE fp = 1 ->
           <<BatchSym(1, "A", "Class", 0,
                <<BatchSym(1, "m", "Method", 1,
                     <<BatchSym(1, "t", "Variable", 2, <<>>, calls)>>, calls),
                  BatchSym(1, "n", "Method", 3, <<>>, calls)>>, calls),
             BatchSym(1, "operator|", "Function", 5, <<>>, calls),
             BatchSym(1, "h", "Function", 7,
                <<BatchSym(1, "v", "Variable", 8, <<>>, calls)>>, calls)>>
      [] fp = 2 ->
           <<BatchSym(2, "g", "Function", 0, <<>>, calls),
             BatchSym(2, "g", "Function", 2, <<>>, calls),
             BatchSym(2, "K", "Constant", 4, <<>>, calls),
             BatchSym(2, "N", "Namespace", 6,
                <<BatchSym(2, "nf", "Function", 7, <<>>, calls)>>, calls)>>
      [] fp = 3 ->
           <<BatchSym(3, "I", "Interface", 0,
                <<BatchSym(3, "run", "Method", 1, <<>>, calls),
                  BatchSym(3, "run", "Method", 1, <<>>, calls)>>, calls)>>
      [] fp = NumFiles + 1 ->
           <<BatchSym(fp, "p", "Function", 0,
                <<BatchSym(fp, "w", "Variable", 1, <<>>, calls)>>, calls),
             BatchSym(fp, "q", "Function", 3, <<>>, calls)>>
      [] OTHER -> <<>>

\* The batch handed to generateGraph: documents and their symbols.
BatchFiles(paths, calls) ==
    [i \in DOMAIN paths |-> [fsPath |-> paths[i], symbols |-> BatchSymbols(paths[i], calls)]]

\* The paths of the batch universe: the workspace files, one file more
\* which holds top-level functions only, and file 0 which holds no symbol.
BatchPaths == 0..(NumFiles + 1)

\* Batches of at most two distinct files, in either order.
Batches ==
    {<<>>} \cup {<<a>> : a \in BatchPaths}
           \cup {<<p[1], p[2]>> : p \in {q \in BatchPaths \X BatchPaths : q[1] # q[2]}}

CallSets == {c \in SUBSET Range(CallUniverse) : Cardinality(c) <= MaxCalls}

\* A map whose two module names differ in case only.
CaseMap == [fp \in {1, 2} |-> IF fp = 1 THEN "Data Layer" ELSE "data layer"]

SemanticMaps == ArchMaps \cup {NoSemanticMap, CaseMap}

RootLabels == {UNDEFINED, "Core"}

InitGraph ==
    /\ ViewInit
    /\ pending = {}
    /\ inbox = <<>>
    /\ cache = [k \in {} |-> EmptyFlowData]
    /\ issued = <<>>
    /\ HistInit
    /\ HeurIdle
    /\ gPaths \in Batches
    /\ gCalls \in CallSets
    /\ gSemanticMap \in SemanticMaps
    /\ gRootLabel \in RootLabels
    /\ gIncludeFiles \in BOOLEAN
    /\ gRun = NoRun
    /\ gDone = FALSE
    /\ gRerun = NoRun
    /\ gRerunDone = FALSE
    /\ SettleIdle
    /\ LayoutIdle
    /\ ScanIdle
    /\ OverlapIdle

\* One call generateGraph(files, semanticMap, virtualRootLabel, includeFiles).
CallGenerateGraph ==
    /\ ~gDone
    /\ gRun' = GraphRun(BatchFiles(gPaths, gCalls), gSemanticMap, gRootLabel,
                        gIncludeFiles)
    /\ gDone' = TRUE
    /\ UNCHANGED <<viewVars, now, backVars, histVars, heurVars, gPaths, gCalls,
                   gSemanticMap, gRootLabel, gIncludeFiles, gRerun, gRerunDone,
                   settleVars, layoutVars, scanVars, overlapVars>>

\* The same call once more, on the instance the first call left.
CallGenerateGraphAgain ==
    /\ gDone
    /\ ~gRerunDone
    /\ gRerun' = GraphRunOn(ServiceAfter(gRun), BatchFiles(gPaths, gCalls),
                            gSemanticMap, gRootLabel, gIncludeFiles)
    /\ gRerunDone' = TRUE
    /\ UNCHANGED <<viewVars, now, backVars, histVars, heurVars, gPaths, gCalls,
                   gSemanticMap, gRootLabel, gIncludeFiles, gRun, gDone,
                   settleVars, layoutVars, scanVars, overlapVars>>

NextGraph == CallGenerateGraph \/ CallGenerateGraphAgain

SpecGraph == InitGraph /\ [][NextGraph]_vars

(***************************************************************************)
(* Step 2 of generateGraph with its relationship queries settling one by   *)
(* one, in any order.                                                      *)
(***************************************************************************)
\* What the queries work from once step 1 and the processCalls walk are
\* over: the symbols whose queries are under way, symbolOwnerMap and
\* _nodeIdMap.
WalkOf(run) ==
    [queries |-> run.queries, symbolOwnerMap |-> run.symbolOwnerMap,
     nodeIdMap |-> run.nodeIdMap]

\* What one _aggregateOutgoingCalls adds to edgeMap when its queries have
\* settled: nothing when a query throws (the catch swallows it), else one
\* entry per reported call that resolves to another owner.  The loop over
\* the reported calls has no suspension point.
SettledCalls(probe, walk, fails) ==
    IF probe.symbol.name \in fails THEN <<>>
    ELSE aggregateOutgoingCalls(probe, walk.symbolOwnerMap, walk.nodeIdMap)

\* A wait that ends while promises are unsettled.
AllSettled_NoWait(promises) == TRUE

\* await Promise.all(callsPromises): every promise has settled (none of
\* them rejects).
AllSettled(promises) == promises = {}

\* The batches whose queries are followed one by one.
SettleBatches == {<<1>>, <<1, 2>>, <<2, 1>>}

\* The symbol names for which the provider throws.
FailSets == {{}, {"m"}, {"g"}}

\* The calls the provider reports in a run followed query by query: up to
\* one more than in the runs taken whole, so that two queries can settle in
\* either order next to a failing one.
SettleCallSets ==
    {c \in SUBSET Range(CallUniverse) : Cardinality(c) <= MaxCalls + 1}

InitSettle ==
    /\ ViewInit
    /\ pending = {}
    /\ inbox = <<>>
    /\ cache = [k \in {} |-> EmptyFlowData]
    /\ issued = <<>>
    /\ HistInit
    /\ HeurIdle
    /\ LayoutIdle
    /\ ScanIdle
    /\ OverlapIdle
    /\ gPaths \in SettleBatches
    /\ gCalls \in SettleCallSets
    /\ gSemanticMap = NoSemanticMap
    /\ gRootLabel = UNDEFINED
    /\ gIncludeFiles \in BOOLEAN
    /\ gRun = NoRun
    /\ gDone = FALSE
    /\ gRerun = NoRun
    /\ gRerunDone = FALSE
    /\ aFails \in FailSets
    /\ aStage = "idle"
    /\ aWalk = NoWalk
    /\ callsPromises = {}
    /\ edgeMap = <<>>
    /\ aEdges = <<>>

\* generateGraph up to await Promise.all: step 1, then the processCalls
\* walk, which starts one _aggregateOutgoingCalls per symbol; those that
\* reach their queries are suspended in them.
StartQueries ==
    /\ aStage = "idle"
    /\ aWalk' = WalkOf(GraphRun(BatchFiles(gPaths, gCalls), gSemanticMap,
                                gRootLabel, gIncludeFiles))
    /\ callsPromises' = DOMAIN aWalk'.queries
    /\ aStage' = "waiting"
    /\ UNCHANGED <<viewVars, now, backVars, histVars, heurVars, graphVars,
                   aFails, edgeMap, aEdges, layoutVars, scanVars, overlapVars>>

\* The queries of one symbol settle and its _aggregateOutgoingCalls runs to
\* its end.
SettleQuery ==
    \E k \in callsPromises :
        /\ edgeMap' = edgeMap \o SettledCalls(aWalk.queries[k], aWalk, aFails)
        /\ callsPromises' = callsPromises \ {k}
        /\ UNCHANGED <<viewVars, now, backVars, histVars, heurVars, graphVars,
                       aFails, aStage, aWalk, aEdges, layoutVars, scanVars, overlapVars>>

\* generateGraph after await Promise.all: edgeMap.forEach builds the edges.
BuildEdges ==
    /\ aStage = "waiting"
    /\ AllSettled(callsPromises)
    /\ aEdges' = EdgesOfFacts(edgeMap)
    /\ aStage' = "done"
    /\ UNCHANGED <<viewVars, now, backVars, histVars, heurVars, graphVars,
                   aFails, aWalk, callsPromises, edgeMap, layoutVars, scanVars, overlapVars>>

NextSettle == StartQueries \/ SettleQuery \/ BuildEdges

SpecSettle == InitSettle /\ [][NextSettle]_vars

(***************************************************************************)
(* getLayoutedElements alone, on bounded node lists and expansion sets.    *)
(***************************************************************************)
\* The nodes laid out: a root container, a group in it, a leaf in the
\* group, a process step on its own with a long label and a description,
\* and a leaf whose parent is not a node.
LayoutUniverse ==
    <<FlowNode(ROOT_ID, "group", UNDEFINED, "Core", "system", <<>>),
      FlowNode("mod-data", "group", ROOT_ID, "Data", "system", <<>>),
      FlowNode("f1::h::7", "component", "mod-data", "h", "function", <<>>),
      [id |-> "f2::g::0", type |-> "process", parentNode |-> UNDEFINED,
       data |-> [label |-> "parseAndValidateIncomingWorkspaceConfigurationFile",
                 type |-> "process", files |-> <<>>,
                 description |-> "Reads the file"]],
      FlowNode("f2::K::4", "component", "mod-gone", "K", "function", <<>>)>>

\* The nodes of the universe at the positions picked, in order.
RECURSIVE PickNodes(_, _)
PickNodes(picked, i) ==
    IF i > Len(LayoutUniverse) THEN <<>>
    ELSE (IF i \in picked THEN <<LayoutUniverse[i]>> ELSE <<>>)
            \o PickNodes(picked, i + 1)

\* Node lists: every selection of the universe, and the chain with its
\* leaf listed twice.
LayoutNodeLists ==
    {PickNodes(picked, 1) : picked \in SUBSET (DOMAIN LayoutUniverse)}
       \cup {PickNodes({1, 2, 3}, 1) \o PickNodes({3}, 1)}

LayoutEdgeLists ==
    {<<>>, <<FlowEdge("f1::h::7", "f2::g::0", UNDEFINED, <<>>)>>}

\* The ids a user can have expanded: those of nodes of the list.
LayoutExpansions(n) == SUBSET {n[i].id : i \in DOMAIN n}

InitLayout ==
    /\ ViewInit
    /\ pending = {}
    /\ inbox = <<>>
    /\ cache = [k \in {} |-> EmptyFlowData]
    /\ issued = <<>>
    /\ HistInit
    /\ HeurIdle
    /\ GraphIdle
    /\ SettleIdle
    /\ ScanIdle
    /\ OverlapIdle
    /\ lNodes \in LayoutNodeLists
    /\ lEdges \in LayoutEdgeLists
    /\ lExpandedIds \in LayoutExpansions(lNodes)
    /\ lResult = NoLayout
    /\ lDone = FALSE
    /\ lDagre = NoDagre

\* One call getLayoutedElements(nodes, edges, 'TB', expandedIds).
CallLayout ==
    /\ ~lDone
    /\ lResult' = getLayoutedElements(lNodes, lEdges, lExpandedIds)
    /\ lDagre' = DagreGraph(lNodes, lEdges, lExpandedIds)
    /\ lDone' = TRUE
    /\ UNCHANGED <<viewVars, now, backVars, histVars, heurVars, graphVars,
                   settleVars, lNodes, lEdges, lExpandedIds, scanVars,
                   overlapVars>>

SpecLayout == InitLayout /\ [][CallLayout]_vars

(***************************************************************************)
(* The background workspace scan and the block mode switch.                *)
(***************************************************************************)
MaxScans == 2
MaxToggles == 3
NumScanFiles == 2

\* The files findFiles and the filter leave for a scan, in order.
ScanFiles == [i \in 1..NumScanFiles |-> i]

\* One call of _scanWorkspace: where it is (find: awaiting findFiles and the
\* filter; check: at the head of the loop; read: awaiting the document and
\* symbols of file i; refresh: awaiting _refreshGraph; done), the file it is
\* at, whether the mode was turned off while it ran, and the files whose
\* processing began after that.
Scan(pc, i, off, late) == [pc |-> pc, i |-> i, off |-> off, late |-> late]

\* this._scanWorkspace() called.
StartScan(ss) == Append(ss, Scan("find", 1, FALSE, {}))

\* What the running scans record when the mode is turned off.
TurnedOff(ss) ==
    [k \in DOMAIN ss |->
        IF ss[k].pc # "done" THEN [ss[k] EXCEPT !.off = TRUE] ELSE ss[k]]

InitScan ==
    /\ ViewInit
    /\ pending = {}
    /\ inbox = <<>>
    /\ cache = [k \in {} |-> EmptyFlowData]
    /\ issued = <<>>
    /\ HistInit
    /\ HeurIdle
    /\ GraphIdle
    /\ SettleIdle
    /\ LayoutIdle
    /\ ScanIdle
    /\ OverlapIdle

\* BlockManager.toggle (no active editor): flips the mode; turning it on
\* starts a scan, turning it off clears the decorations.
toggle ==
    /\ toggles < MaxToggles
    /\ toggles' = toggles + 1
    /\ isBlockMode' = ~isBlockMode
    /\ IF isBlockMode'
       THEN /\ Len(scans) < MaxScans
            /\ scans' = StartScan(scans)
       ELSE scans' = TurnedOff(scans)
    /\ UNCHANGED <<viewVars, now, backVars, histVars, heurVars, graphVars,
                   settleVars, layoutVars, fileCache, overlapVars>>

\* CallGraphPanel.onWebviewReady: sets the mode and starts a scan.
onWebviewReady ==
    /\ Len(scans) < MaxScans
    /\ isBlockMode' = TRUE
    /\ scans' = StartScan(scans)
    /\ UNCHANGED <<viewVars, now, backVars, histVars, heurVars, graphVars,
                   settleVars, layoutVars, fileCache, toggles,
                   overlapVars>>

\* The head of the loop of _scanWorkspace: for (const file of files) {
\* if (!this._isBlockMode) break; ... }
AfterCheck(scan, mode) ==
    IF scan.i > Len(ScanFiles) \/ ~mode THEN [scan EXCEPT !.pc = "refresh"]
    ELSE [scan EXCEPT !.pc = "read",
                      !.late = IF scan.off THEN @ \cup {ScanFiles[scan.i]} ELSE @]

\* One step of a scan, up to its next await.
ScanStep ==
    \E k \in DOMAIN scans :
        /\ scans[k].pc # "done"
        /\ CASE scans[k].pc = "find" ->
                   /\ scans' = [scans EXCEPT ![k] = AfterCheck(scans[k], isBlockMode)]
                   /\ UNCHANGED fileCache
             [] scans[k].pc = "read" ->
                   \E hasSymbols \in BOOLEAN :
                       /\ fileCache' = IF hasSymbols
                                       THEN fileCache \cup {ScanFiles[scans[k].i]}
                                       ELSE fileCache
                       /\ scans' = [scans EXCEPT ![k] =
                                       AfterCheck([scans[k] EXCEPT !.i = @ + 1],
                                                  isBlockMode)]
             [] scans[k].pc = "refresh" ->
                   /\ scans' = [scans EXCEPT ![k].pc = "done"]
                   /\ UNCHANGED fileCache
        /\ UNCHANGED <<viewVars, now, backVars, histVars, heurVars, graphVars,
                       settleVars, layoutVars, isBlockMode, toggles,
                       overlapVars>>

NextScan == toggle \/ onWebviewReady \/ ScanStep

SpecScan == InitScan /\ [][NextScan]_vars

(***************************************************************************)
(* Double clicks and Back on one displayed graph: the webview right after  *)
(* it applied its first update, for every graph of a small family.         *)
(***************************************************************************)
\* Nodes the collaborator can return for a flow (unvalidated): a system with
\* files, a system with an empty file list, a step without a type and
\* without files, a group, a component and a start node.
ClickNodes ==
    <<ProcNode("s1", "Core", "system", <<2, 1>>),
      ProcNode("s0", "Docs", "system", <<>>),
      ProcNode("p0", "Idle step", UNDEFINED, <<>>),
      ProcNode("g", "Shared", "group", <<>>),
      ProcNode("c", "helper", "component", <<>>),
      ProcNode("start", "Start Core", "start", <<>>)>>

\* The elements of a sequence at the positions picked, in order.
RECURSIVE PickFrom(_, _, _)
PickFrom(universe, picked, i) ==
    IF i > Len(universe) THEN <<>>
    ELSE (IF i \in picked THEN <<universe[i]>> ELSE <<>>)
            \o PickFrom(universe, picked, i + 1)

\* A flow over the nodes picked, its first two nodes linked.
ClickFlow(picked) ==
    LET n == PickFrom(ClickNodes, picked, 1)
    IN  [nodes |-> n,
         edges |-> IF Len(n) >= 2
                   THEN <<ProcEdge(n[1].id, n[2].id, "next")>> ELSE <<>>]

\* The graphs a first updateGraph can carry: what _refreshGraph publishes
\* for the cached files, and the flows over every selection of ClickNodes.
ClickGraphs ==
    RefreshGraphs
      \cup {convertProcessToReactFlow(ClickFlow(picked)) :
               picked \in SUBSET (DOMAIN ClickNodes)}

\* The webview after handleMessage applied a first background update.
InitClick ==
    /\ \E data \in ClickGraphs :
          /\ rawNodes = SafeNodes(data.nodes)
          /\ rawEdges = data.edges
          /\ expandedIdsRef = NextExpanded(SafeNodes(data.nodes), {})
          /\ nodes = getLayoutedElements(SafeNodes(data.nodes), data.edges,
                                         NextExpanded(SafeNodes(data.nodes), {})).nodes
    /\ currentLabel = "System Overview"
    /\ viewStack = <<>>
    /\ activeRequestId = NULL
    /\ isLoading = FALSE
    /\ now = 0
    /\ pending = {}
    /\ inbox = <<>>
    /\ cache = [k \in {} |-> EmptyFlowData]
    /\ issued = <<>>
    /\ HistInit
    /\ HeurIdle
    /\ GraphIdle
    /\ SettleIdle
    /\ LayoutIdle
    /\ ScanIdle
    /\ OverlapIdle

NextClick ==
    \/ \E node \in OnScreen, t \in ClockReadings : onNodeDoubleClick(node, t)
    \/ goBack

SpecClick == InitClick /\ [][NextClick]_vars

(***************************************************************************)
(* Two calls of generateGraph on the one GraphService instance, each       *)
(* suspended at await Promise.all while its relationship queries settle.   *)
(***************************************************************************)
\* The arguments of one call: the batch, the semantic map and the root
\* label (includeFiles is false in every call the BlockManager makes).
GraphRequest(paths, semanticMap, rootLabel) ==
    [paths |-> paths, semanticMap |-> semanticMap, rootLabel |-> rootLabel]

\* The calls of the drillDown handler (a node's files, its label) and of
\* _refreshGraph (the cached files, the inferred module map).
DrillRequests ==
    {GraphRequest(paths, NoSemanticMap, "Core") :
        paths \in {<<1, 2>>, <<2, 1>>, <<1>>, <<3>>}}

RefreshRequests ==
    {GraphRequest(CachedFiles, archMap, UNDEFINED) : archMap \in ArchMaps}

\* Two calls over different batches, at least one of them a drill-down.
RequestPairs ==
    {<<a, b>> : a \in DrillRequests, b \in DrillRequests \cup RefreshRequests}

\* One call of generateGraph: its arguments, where it is, what its step 1
\* and its processCalls walk left in its local maps, the nodes it made, the
\* number of its queries that have settled, and edgeMap.
OverlapRun(request) ==
    [request |-> request, stage |-> "idle", walk |-> NoWalk, nodes |-> <<>>,
     settled |-> 0, edgeMap |-> <<>>, result |-> NoGraph]

InitOverlap ==
    /\ ViewInit
    /\ pending = {}
    /\ inbox = <<>>
    /\ cache = [k \in {} |-> EmptyFlowData]
    /\ issued = <<>>
    /\ HistInit
    /\ HeurIdle
    /\ gPaths = <<>>
    /\ gCalls \in CallSets
    /\ gSemanticMap = NoSemanticMap
    /\ gRootLabel = UNDEFINED
    /\ gIncludeFiles = FALSE
    /\ gRun = NoRun
    /\ gDone = FALSE
    /\ gRerun = NoRun
    /\ gRerunDone = FALSE
    /\ SettleIdle
    /\ LayoutIdle
    /\ ScanIdle
    /\ svcNodeIdMap = <<>>
    /\ \E pair \in RequestPairs :
          /\ pair[1].paths # pair[2].paths
          /\ oRuns = <<OverlapRun(pair[1]), OverlapRun(pair[2])>>

\* A call up to its await: run is what the synchronous part computes on the
\* instance as it finds it (_nodeIdMap cleared, then written by _getNodeId).
StartedRun(k, run) ==
    /\ svcNodeIdMap' = run.nodeIdMap
    /\ oRuns' = [oRuns EXCEPT ![k] =
                    [@ EXCEPT !.stage = "waiting", !.walk = WalkOf(run),
                              !.nodes = run.nodes]]

\* generateGraph is called: everything up to await Promise.all runs at once.
StartRun(k) ==
    /\ oRuns[k].stage = "idle"
    /\ StartedRun(k, GraphRunOn([nodeIdMap |-> svcNodeIdMap],
                                BatchFiles(oRuns[k].request.paths, gCalls),
                                oRuns[k].request.semanticMap,
                                oRuns[k].request.rootLabel, FALSE))
    /\ UNCHANGED <<viewVars, now, backVars, histVars, heurVars, graphVars,
                   settleVars, layoutVars, scanVars>>

\* The next relationship query of a waiting call settles (in document
\* order within the call): its loop resolves each reported call through
\* this._nodeIdMap as it is now.
SettleRunQuery(k) ==
    /\ oRuns[k].stage = "waiting"
    /\ oRuns[k].settled < Len(oRuns[k].walk.queries)
    /\ oRuns' = [oRuns EXCEPT ![k] =
                    [@ EXCEPT !.settled = @ + 1,
                              !.edgeMap = @ \o aggregateOutgoingCalls(
                                   oRuns[k].walk.queries[oRuns[k].settled + 1],
                                   oRuns[k].walk.symbolOwnerMap, svcNodeIdMap)]]
    /\ UNCHANGED <<viewVars, now, backVars, histVars, heurVars, graphVars,
                   settleVars, layoutVars, scanVars, svcNodeIdMap>>

\* Promise.all has resolved: the edges are built and the call returns.
FinishRun(k) ==
    /\ oRuns[k].stage = "waiting"
    /\ oRuns[k].settled = Len(oRuns[k].walk.queries)
    /\ oRuns' = [oRuns EXCEPT ![k] =
                    [@ EXCEPT !.stage = "done",
                              !.result = [nodes |-> oRuns[k].nodes,
                                          edges |-> EdgesOfFacts(oRuns[k].edgeMap)]]]
    /\ UNCHANGED <<viewVars, now, backVars, histVars, heurVars, graphVars,
                   settleVars, layoutVars, scanVars, svcNodeIdMap>>

NextOverlap ==
    \/ \E k \in DOMAIN oRuns : StartRun(k)
    \/ \E k \in DOMAIN oRuns : SettleRunQuery(k)
    \/ \E k \in DOMAIN oRuns : FinishRun(k)

SpecOverlap == InitOverlap /\ [][NextOverlap]_vars

(***************************************************************************)
(* Properties.                                                             *)
(***************************************************************************)
\* A step in which handleMessage takes the message at the head of the inbox.
Delivers == inbox # <<>> /\ inbox' = Tail(inbox)

\* A step that leaves the displayed graph as it is.
DisplayKept == UNCHANGED <<rawNodes, rawEdges, nodes>>

\* C1: the response to a drill request after which, and before whose
\* response arrived, a later drill request was issued is discarded when it
\* arrives: the displayed graph does not change.
C1_SupersededDiscarded ==
    [][(Delivers /\ Head(inbox).n \in superseded) => DisplayKept]_vars

\* C2: the response to a drill request that was unanswered when Back was
\* pressed is never applied: its arrival leaves the displayed graph as it is.
C2_CancelledNeverApplied ==
    [][(Delivers /\ Head(inbox).n \in cancelled) => DisplayKept]_vars

\* C3: an updateGraph without a request token (a background refresh) is not
\* applied while a drill token is active or the navigation stack is non-empty.
C3_RefreshSuppressed ==
    [][(/\ Delivers
        /\ ~Truthy(Head(inbox).requestId)
        /\ (Truthy(activeRequestId) \/ Len(viewStack) > 0)) => DisplayKept]_vars

\* C4: the token of a new drill request differs from the token of every
\* earlier request of the session, and it is the active token once issued.
C4_FreshTokens ==
    [][Len(issued') > Len(issued) =>
          LET new == issued'[Len(issued')]
          IN  /\ \A k \in DOMAIN issued : issued[k].requestId # new.requestId
              /\ activeRequestId' = new.requestId]_vars

\* C5: every drillDown message is answered: once its handler has returned,
\* an updateGraph for the request has been published.
C5_EveryDrillAnswered == finished \subseteq published

\* The ids of a node sequence, in order.
NodeIds(n) == [i \in DOMAIN n |-> n[i].id]

\* The (source, target) pairs of an edge sequence, in order.
EdgePairs(e) == [i \in DOMAIN e |-> <<e[i].source, e[i].target>>]

\* g is a start -> step_0 -> ... -> end flow over the first files of paths,
\* taken in some order.
IsHeuristicGraph(g, paths) ==
    LET k == Min(5, Len(paths))
    IN  /\ NodeIds(g.nodes)
              = <<"start">> \o [i \in 1..k |-> StepId(i - 1)] \o <<"end">>
        /\ \A i \in 1..k :
              /\ Len(g.nodes[i + 1].data.files) = 1
              /\ g.nodes[i + 1].data.files[1] \in Range(paths)
        /\ EdgePairs(g.edges)
              = [i \in 1..(k + 1) |->
                    <<NodeIds(g.nodes)[i], NodeIds(g.nodes)[i + 1]>>]

\* C6: for a drill-down on a system node the handler publishes the
\* inference result (same node ids, same edges) when it has at least 2
\* nodes, and the heuristic flow when inference gave nothing or fewer than 2
\* nodes.
C6_FallbackChain ==
    lastAnswer.message.nodeType = "system" =>
        LET sub == lastAnswer.sub
            pub == lastAnswer.pub
        IN  /\ pub.posted
            /\ IF ~sub.isNull /\ Len(sub.data.nodes) >= 2
               THEN /\ NodeIds(pub.data.nodes) = NodeIds(sub.data.nodes)
                    /\ EdgePairs(pub.data.edges) = EdgePairs(sub.data.edges)
               ELSE /\ IsHeuristicGraph(pub.data, lastAnswer.message.filePaths)
                    /\ (~sub.isNull /\ Len(sub.data.nodes) = 1
                           => NodeIds(pub.data.nodes) # NodeIds(sub.data.nodes))

\* The handler has answered a system drill-down for which inference
\* returned a one-node flow.
C6_Witness ==
    /\ lastAnswer.message.nodeType = "system"
    /\ ~lastAnswer.sub.isNull
    /\ Len(lastAnswer.sub.data.nodes) = 1
    /\ lastAnswer.pub.posted

\* C7: generateHeuristicFlow returns min(5, n) + 2 nodes (start, one
\* process step per file with exactly that file, end) and min(5, n) + 1
\* edges forming the chain start -> step_0 -> ... -> end; no node has two
\* outgoing or two incoming edges.
C7_HeuristicShape ==
    hDone =>
        LET n == Len(hFiles)
            k == Min(5, n)
            N == hFlow.nodes
            E == hFlow.edges
        IN  /\ Len(N) = k + 2
            /\ Len(E) = k + 1
            /\ N[1].type = "start" /\ N[1].id = "start"
            /\ N[k + 2].type = "end" /\ N[k + 2].id = "end"
            /\ \A i \in 1..k :
                  /\ N[i + 1].type = "process"
                  /\ N[i + 1].id = StepId(i - 1)
                  /\ N[i + 1].files = <<hFiles[i]>>
            /\ \A i \in 1..(k + 1) :
                  E[i].source = N[i].id /\ E[i].target = N[i + 1].id
            /\ \A i \in DOMAIN N :
                  /\ Cardinality({j \in DOMAIN E : E[j].source = N[i].id}) <= 1
                  /\ Cardinality({j \in DOMAIN E : E[j].target = N[i].id}) <= 1

\* generateHeuristicFlow has run on a list longer than five files.
C7_Witness == hDone /\ Len(hFiles) > 5

\* The classes, interfaces and top-level functions and constants of a file.
TopLevelComponents(fp) ==
    {sym \in Range(WorkspaceSymbols(fp)) :
        sym.kind \in {"Class", "Interface", "Function", "Constant"}}

\* g is a Component Graph for the drillDown message: no file node, one root
\* container carrying the message's label, every top-level component of the
\* message's files a node parented to that root.
IsComponentGraph(g, message) ==
    LET roots == {i \in DOMAIN g.nodes : ~Truthy(g.nodes[i].parentNode)}
    IN  /\ \A i \in DOMAIN g.nodes : g.nodes[i].data.type # "file"
        /\ Cardinality(roots) = 1
        /\ \A r \in roots :
              g.nodes[r].type = "group" /\ g.nodes[r].data.label = message.label
        /\ \A fp \in Range(message.filePaths) :
              \A sym \in TopLevelComponents(fp) :
                 \E i \in DOMAIN g.nodes, r \in roots :
                    /\ g.nodes[i].id = getNodeId(Uri(fp), sym)
                    /\ g.nodes[i].parentNode = g.nodes[r].id

\* C8: the graph published for a drill-down on a process node is a
\* Component Graph over the node's files: no file node, one root container
\* labelled with the node's label, every class/interface and top-level
\* function/constant a node parented to that root.
C8_ComponentGraph ==
    (lastAnswer.message.nodeType = "process" /\ lastAnswer.pub.posted)
        => IsComponentGraph(lastAnswer.pub.data, lastAnswer.message)

\* C9: Back pops the top frame and displays the nodes, edges and label that
\* were on screen when the drill-down it undoes was made; from an empty
\* stack no Back step changes anything.
C9_BackRestores ==
    [][/\ viewStack = <<>> => ~ENABLED <<goBack>>_vars
       /\ Len(viewStack') < Len(viewStack) =>
             LET F0 == origin[Len(origin)]
             IN  /\ rawNodes' = F0.nodes
                 /\ rawEdges' = F0.edges
                 /\ currentLabel' = F0.label
                 /\ viewStack' = SubSeq(viewStack, 1, Len(viewStack) - 1)]_vars

\* Two drill-downs from a displayed graph have been undone by two Backs.
C9_Witness ==
    /\ Len(issued) = 2
    /\ 1 \in delivered
    /\ viewStack = <<>>
    /\ rawNodes # <<>>

\* C10: the depth of the navigation stack is the number of applied
\* drill-down responses not yet undone by Back.
C10_StackDepth == Len(viewStack) = appliedDepth

\* The ids of the parentless nodes of a node sequence.
RootIds(n) == {n[i].id : i \in {j \in DOMAIN n : ~Truthy(n[j].parentNode)}}

\* The updateGraph message at the head of the inbox is the response to the
\* active drill-down request.
DeliversActiveResponse ==
    /\ Delivers
    /\ Truthy(Head(inbox).requestId)
    /\ Head(inbox).requestId = activeRequestId

\* C11: when the response matching the active token is applied, the
\* expansion state of the new frame is the empty set, plus only the id of
\* the new graph's single root when it has exactly one: no id expanded in
\* the previous frame is carried over.
C11_ExpansionResetOnResponse ==
    [][DeliversActiveResponse =>
          expandedIdsRef' = IF Cardinality(RootIds(rawNodes')) = 1
                            THEN RootIds(rawNodes') ELSE {}]_vars

\* C12: after Back the expansion state is the empty set.
C12_ExpansionResetOnBack ==
    [][Len(viewStack') < Len(viewStack) => expandedIdsRef' = {}]_vars

\* The updateGraph message at the head of the inbox is a background refresh.
DeliversRefresh == Delivers /\ ~Truthy(Head(inbox).requestId)

\* C13: handling a background graph update removes no id from the expansion
\* state; it adds at most the id of the new graph's single root, and only
\* when the state was empty.
C13_ExpansionSurvivesRefresh ==
    [][DeliversRefresh =>
          /\ expandedIdsRef \subseteq expandedIdsRef'
          /\ expandedIdsRef' \ expandedIdsRef
                \subseteq IF expandedIdsRef = {}
                             /\ Cardinality(RootIds(SafeNodes(Head(inbox).data.nodes))) = 1
                          THEN RootIds(SafeNodes(Head(inbox).data.nodes))
                          ELSE {}]_vars

\* A background refresh has replaced the overview whose group was
\* expanded: the expanded id is kept although the displayed graph has no
\* such node.
C13_Witness ==
    /\ issued = <<>>
    /\ expandedIdsRef # {}
    /\ rawNodes # <<>>
    /\ \A i \in DOMAIN rawNodes : rawNodes[i].id \notin expandedIdsRef

\* The owner symbolOwnerMap holds for an entity id, if any.
OwnerOf(run, id) ==
    IF MapHas(run.symbolOwnerMap, id) THEN MapGet(run.symbolOwnerMap, id)
    ELSE UNDEFINED

\* The entity a reported call target resolves to through the (file, line)
\* reverse index, if any.
ResolveTarget(run, call) ==
    IF MapHas(run.nodeIdMap, NodeIdKey(call.uri, call.line))
    THEN MapGet(run.nodeIdMap, NodeIdKey(call.uri, call.line))
    ELSE UNDEFINED

\* The calls reported during a run: one record per outgoing call of each
\* symbol of the batch that is owned and of a callable kind, with the owner
\* of the caller and the owner of the entity the target resolves to.
ReportedCalls(run) ==
    {[k |-> p[1], j |-> p[2],
      source |-> OwnerOf(run, run.probes[p[1]].id),
      target |-> OwnerOf(run, ResolveTarget(run, run.probes[p[1]].symbol.calls[p[2]])),
      desc |-> run.probes[p[1]].symbol.name \o " -> "
                  \o run.probes[p[1]].symbol.calls[p[2]].name] :
        p \in {q \in (DOMAIN run.probes) \X (1..Len(CallUniverse)) :
                 /\ run.probes[q[1]].symbol.kind \in {"Method", "Function"}
                 /\ Truthy(OwnerOf(run, run.probes[q[1]].id))
                 /\ q[2] \in DOMAIN run.probes[q[1]].symbol.calls}}

\* C14: the edge set holds no edge whose source equals its target, and a
\* reported call between two entities of one owner adds no entry to the
\* edge map.
C14_NoSelfLoops ==
    gDone =>
        /\ \A i \in DOMAIN gRun.edges : gRun.edges[i].source # gRun.edges[i].target
        /\ \A c \in ReportedCalls(gRun) :
              c.source = c.target =>
                 \A i \in DOMAIN gRun.facts :
                    ~(gRun.facts[i].source = c.source /\ gRun.facts[i].target = c.target)

\* The graph was assembled for a batch in which a method of a class calls
\* another method of the same class, next to a call that gives an edge.
C14_Witness ==
    /\ gDone
    /\ \E c \in ReportedCalls(gRun) : Truthy(c.source) /\ c.source = c.target
    /\ gRun.edges # <<>>

\* The weight an edge carries: the count of its "<count> calls" label, 1
\* for an edge without label.
EdgeWeight(e) ==
    IF e.label = UNDEFINED THEN 1
    ELSE CHOOSE n \in 2..Len(CallUniverse) : e.label = ToString(n) \o " calls"

\* The reported calls from entities owned by source to entities owned by
\* target.
CallsBetween(run, source, target) ==
    {c \in ReportedCalls(run) : c.source = source /\ c.target = target}

\* C15: the edge set holds at most one edge per ordered (source, target)
\* pair; the weight of an edge is the number of reported calls from
\* entities of its source owner to entities of its target owner; its detail
\* holds one entry per distinct description of those calls.
C15_DedupAndWeight ==
    gDone =>
        LET E == gRun.edges
        IN  /\ \A i, j \in DOMAIN E :
                  i # j => <<E[i].source, E[i].target>> # <<E[j].source, E[j].target>>
            /\ \A i \in DOMAIN E :
                  LET between == CallsBetween(gRun, E[i].source, E[i].target)
                  IN  /\ EdgeWeight(E[i]) = Cardinality(between)
                      /\ Len(E[i].calls) = Cardinality(Range(E[i].calls))
                      /\ Range(E[i].calls) = {c.desc : c \in between}

\* A reported call between entities of two different owners.
IsCrossOwner(c) == Truthy(c.target) /\ c.source # c.target

\* C16: every edge has a reported call whose caller is owned by the edge's
\* source and whose target resolves to an entity owned by the edge's
\* target; without cross-owner calls the edge set is empty; a call whose
\* target is no entity of the batch gives no edge, and every cross-owner
\* call reported next to it still has its edge.
C16_EdgesJustified ==
    gDone =>
        LET E == gRun.edges
            R == ReportedCalls(gRun)
        IN  /\ \A i \in DOMAIN E :
                  \E c \in R : /\ IsCrossOwner(c)
                               /\ c.source = E[i].source
                               /\ c.target = E[i].target
            /\ (\A c \in R : ~IsCrossOwner(c)) => E = <<>>
            /\ \A c \in R :
                  IsCrossOwner(c) =>
                     \E i \in DOMAIN E : /\ E[i].source = c.source
                                         /\ E[i].target = c.target

\* The files of the batch of the run under way.
BatchOf == BatchFiles(gPaths, gCalls)

\* The id of the file node of a batch file.
FileId(file) == "file-" \o Uri(file.fsPath)

\* The ids of the nodes of a run.
RunNodeIds(run) == {run.nodes[i].id : i \in DOMAIN run.nodes}

\* C17: every entity of every file's entity tree, at any depth and of any
\* kind, has an owner in the OwnerMap.
C17_OwnerMapTotal ==
    gDone =>
        \A i \in DOMAIN BatchOf :
           \A sym \in Range(Flatten(BatchOf[i].symbols)) :
              Truthy(OwnerOf(gRun, getNodeId(Uri(BatchOf[i].fsPath), sym)))

\* C18: every owner in the OwnerMap, and the source and the target of every
\* edge, is the id of a node of the same graph.
C18_OwnersAndEndsExist ==
    gDone =>
        /\ \A k \in MapKeys(gRun.symbolOwnerMap) :
              MapGet(gRun.symbolOwnerMap, k) \in RunNodeIds(gRun)
        /\ \A i \in DOMAIN gRun.edges :
              /\ gRun.edges[i].source \in RunNodeIds(gRun)
              /\ gRun.edges[i].target \in RunNodeIds(gRun)

\* C19: every node's parent is the id of a node of the same graph.
C19_ParentsExist ==
    gDone =>
        \A i \in DOMAIN gRun.nodes :
           Truthy(gRun.nodes[i].parentNode)
              => gRun.nodes[i].parentNode \in RunNodeIds(gRun)

\* C20: in full granularity every class or interface and every top-level
\* function or constant of a file is a node whose parent is the file's
\* node; the symbols nested in them are no nodes and are owned by the
\* enclosing class, or by the file when the enclosing symbol is no class.
C20_FullModeOwnership ==
    (gDone /\ gIncludeFiles) =>
        \A i \in DOMAIN BatchOf :
           LET uri == Uri(BatchOf[i].fsPath)
               top == BatchOf[i].symbols
           IN  \A k \in DOMAIN top :
                  /\ top[k].kind \in {"Class", "Interface", "Function", "Constant"}
                        => \E n \in DOMAIN gRun.nodes :
                              /\ gRun.nodes[n].id = getNodeId(uri, top[k])
                              /\ gRun.nodes[n].parentNode = FileId(BatchOf[i])
                  /\ \A sub \in Range(Flatten(top[k].children)) :
                        /\ getNodeId(uri, sub) \notin RunNodeIds(gRun)
                        /\ OwnerOf(gRun, getNodeId(uri, sub))
                              = IF IsClassKind(top[k].kind)
                                THEN getNodeId(uri, top[k])
                                ELSE FileId(BatchOf[i])

\* The container a file's flattened components are attached to: the file's
\* group, or else the synthetic root.
ContainerOf(fp) ==
    IF fp \in DOMAIN gSemanticMap THEN GroupId(gSemanticMap[fp]) ELSE ROOT_ID

\* C21: in flattened granularity no node is a file node, and a file whose
\* top-level entities are N functions gives exactly N component nodes, one
\* per function, each parented to the container and each its own owner (the
\* entities nested in the functions give no node).
C21_FlattenedOwnership ==
    (gDone /\ ~gIncludeFiles) =>
        /\ \A n \in DOMAIN gRun.nodes : gRun.nodes[n].data.type # "file"
        /\ \A i \in DOMAIN BatchOf :
              LET uri == Uri(BatchOf[i].fsPath)
                  top == BatchOf[i].symbols
                  mine == {getNodeId(uri, sym) : sym \in Range(Flatten(top))}
                  got == SelectSeq(gRun.nodes, LAMBDA n : n.id \in mine)
              IN  (\A k \in DOMAIN top : top[k].kind = "Function") =>
                     /\ NodeIds(got) = [k \in DOMAIN top |-> getNodeId(uri, top[k])]
                     /\ \A k \in DOMAIN got :
                           /\ got[k].type = "component"
                           /\ got[k].parentNode = ContainerOf(BatchOf[i].fsPath)
                           /\ OwnerOf(gRun, got[k].id) = got[k].id

\* The flattened graph was assembled for a batch with the file that holds
\* two top-level functions and no class.
C21_Witness ==
    /\ gDone
    /\ ~gIncludeFiles
    /\ (NumFiles + 1) \in Range(gPaths)
    /\ Len(gPaths) = 2

\* The positions of the nodes of a run whose parent is id.
ChildrenOf(run, id) == {n \in DOMAIN run.nodes : run.nodes[n].parentNode = id}

\* C22: in full granularity every file of the batch is one node labelled
\* with the file name; it is a container exactly when it has child nodes,
\* and a file without class, interface, top-level function or constant is a
\* leaf.
C22_NoEmptyFileContainer ==
    (gDone /\ gIncludeFiles) =>
        \A i \in DOMAIN BatchOf :
           LET fileNodes == SelectSeq(gRun.nodes,
                               LAMBDA n : n.id = FileId(BatchOf[i]))
               children == ChildrenOf(gRun, FileId(BatchOf[i]))
           IN  /\ Len(fileNodes) = 1
               /\ fileNodes[1].data.type = "file"
               /\ fileNodes[1].data.label = Basename(BatchOf[i].fsPath)
               /\ fileNodes[1].type \in {"group", "component"}
               /\ fileNodes[1].type = "group" <=> children # {}
               /\ (\A k \in DOMAIN BatchOf[i].symbols :
                      BatchOf[i].symbols[k].kind
                         \notin {"Class", "Interface", "Function", "Constant"})
                     => fileNodes[1].type = "component"

\* The full graph was assembled for the file without symbols next to the
\* file with a class.
C22_Witness ==
    /\ gDone
    /\ gIncludeFiles
    /\ gPaths = <<0, 1>>

\* C23: when virtualRootLabel is given the graph holds exactly one root
\* container, carrying that label, and it is the only node without parent;
\* the semantic group containers are parented to it.
C23_VirtualRoot ==
    (gDone /\ Truthy(gRootLabel)) =>
        LET roots == SelectSeq(gRun.nodes, LAMBDA n : n.id = ROOT_ID)
        IN  /\ Len(roots) = 1
            /\ roots[1].type = "group"
            /\ roots[1].data.label = gRootLabel
            /\ \A n \in DOMAIN gRun.nodes :
                  ~Truthy(gRun.nodes[n].parentNode) => gRun.nodes[n].id = ROOT_ID
            /\ \A n \in DOMAIN gRun.nodes :
                  (gRun.nodes[n].type = "group" /\ gRun.nodes[n].data.type = "system"
                      /\ gRun.nodes[n].id # ROOT_ID)
                     => gRun.nodes[n].parentNode = ROOT_ID

\* The module names the semantic map gives to the files of the batch.
GroupNames == {gSemanticMap[fp] : fp \in Range(gPaths) \cap DOMAIN gSemanticMap}

\* The group container nodes of a run.
GroupNodes(run) ==
    SelectSeq(run.nodes, LAMBDA n : n.type = "group" /\ n.data.type = "system"
                                       /\ n.id # ROOT_ID)

\* C24: the graph holds exactly one container per distinct group name of
\* the batch, node ids are pairwise distinct, and the nodes of a grouped
\* file (its file node, or its components in flattened granularity) are
\* parented to the container of the file's group.
C24_GroupContainers ==
    gDone =>
        LET G == GroupNodes(gRun)
        IN  /\ Len(G) = Cardinality(GroupNames)
            /\ {G[k].data.label : k \in DOMAIN G} = GroupNames
            /\ \A a, b \in DOMAIN gRun.nodes :
                  a # b => gRun.nodes[a].id # gRun.nodes[b].id
            /\ \A i \in DOMAIN BatchOf :
                  BatchOf[i].fsPath \in DOMAIN gSemanticMap =>
                     LET mine == {k \in DOMAIN G :
                                     G[k].data.label = gSemanticMap[BatchOf[i].fsPath]}
                         uri == Uri(BatchOf[i].fsPath)
                         top == {getNodeId(uri, BatchOf[i].symbols[k]) :
                                    k \in DOMAIN BatchOf[i].symbols}
                                \cup {FileId(BatchOf[i])}
                     IN  \A n \in DOMAIN gRun.nodes :
                            (gRun.nodes[n].id \in top
                                /\ gRun.nodes[n].parentNode # FileId(BatchOf[i]))
                               => \E k \in mine :
                                     /\ gRun.nodes[n].parentNode = G[k].id
                                     /\ \A j \in DOMAIN G : G[j].id = G[k].id => j = k

\* The labels a default container for ungrouped files can carry.
DefaultGroupLabels == {"Core/Utilities", "Core / Utilities"}

\* The ids of the top-level nodes a batch file can give: its file node and
\* the nodes of its top-level symbols.
TopNodeIds(file) ==
    {getNodeId(Uri(file.fsPath), file.symbols[k]) : k \in DOMAIN file.symbols}
       \cup {FileId(file)}

\* C25: when a semantic map is given and has no entry for a file of the
\* batch, the file's nodes are parented to a default container that is a
\* node of the graph.
C25_DefaultGroup ==
    (gDone /\ DOMAIN gSemanticMap # {}) =>
        \A i \in DOMAIN BatchOf :
           BatchOf[i].fsPath \notin DOMAIN gSemanticMap =>
              \A n \in DOMAIN gRun.nodes :
                 (gRun.nodes[n].id \in TopNodeIds(BatchOf[i])
                     /\ gRun.nodes[n].parentNode # FileId(BatchOf[i]))
                    => \E c \in DOMAIN gRun.nodes :
                          /\ gRun.nodes[c].id = gRun.nodes[n].parentNode
                          /\ gRun.nodes[c].type = "group"
                          /\ gRun.nodes[c].data.label \in DefaultGroupLabels

\* What an edge says about the graph: its ordered pair and its weight.
EdgeTriple(e) == <<e.source, e.target, EdgeWeight(e)>>

\* How many edges of a run carry a given (source, target, weight).
TripleCount(run, t) ==
    Cardinality({i \in DOMAIN run.edges : EdgeTriple(run.edges[i]) = t})

\* The ids _getNodeId gives the symbols of the batch.
BatchSymbolIds ==
    UNION {{getNodeId(Uri(BatchOf[i].fsPath), sym) :
               sym \in Range(Flatten(BatchOf[i].symbols))} : i \in DOMAIN BatchOf}

CallableIds ==
    UNION {{getNodeId(Uri(BatchOf[i].fsPath), sym) :
               sym \in {y \in Range(Flatten(BatchOf[i].symbols)) :
                          y.kind \in {"Method", "Function"}}} :
           i \in DOMAIN BatchOf}

EdgeFacts(es) ==
    {<<es[i].source, es[i].target, EdgeWeight(es[i]), Range(es[i].calls)>> :
        i \in DOMAIN es}

\* edgeMap when the queries settle in document order.
DocumentOrderMap ==
    ConcatAll([k \in DOMAIN aWalk.queries |->
                  SettledCalls(aWalk.queries[k], aWalk, aFails)])

\* C28: in whatever order the relationship queries of a run settle, some of
\* them failing, the edges built are, as a set of (pair, weight, call
\* descriptions), those of the run whose queries settle in document order;
\* no edge is built while a query is unsettled.
C28_OrderIndependent ==
    /\ aStage # "done" => aEdges = <<>>
    /\ aStage = "done" =>
          /\ callsPromises = {}
          /\ EdgeFacts(aEdges) = EdgeFacts(EdgesOfFacts(DocumentOrderMap))

\* The edges were built after two queries settled against document order,
\* next to a failing query for which calls would have been reported.
C28_Witness ==
    /\ aStage = "done"
    /\ edgeMap # DocumentOrderMap
    /\ \E k \in DOMAIN aWalk.queries :
          /\ aWalk.queries[k].symbol.name \in aFails
          /\ aWalk.queries[k].symbol.calls # <<>>
    /\ \E i \in DOMAIN aEdges : EdgeWeight(aEdges[i]) > 1

\* C29: the layout returns every input node once, in place, hidden unless
\* it has no parent or its parent is expanded; in the chain root, group,
\* leaf with only the root expanded the leaf is hidden, and with the group
\* expanded the leaf is visible.
C29_VisibilityRule ==
    lDone =>
        /\ Len(lResult.nodes) = Len(lNodes)
        /\ \A i \in DOMAIN lNodes :
              /\ lResult.nodes[i].id = lNodes[i].id
              /\ lResult.nodes[i].parentNode = lNodes[i].parentNode
              /\ lResult.nodes[i].hidden \in BOOLEAN
              /\ ~lResult.nodes[i].hidden
                    <=> (~Truthy(lNodes[i].parentNode)
                            \/ lNodes[i].parentNode \in lExpandedIds)
        /\ \A i \in DOMAIN lNodes :
              lNodes[i].id = "f1::h::7" =>
                 /\ lExpandedIds = {ROOT_ID} => lResult.nodes[i].hidden
                 /\ "mod-data" \in lExpandedIds => ~lResult.nodes[i].hidden

\* The chain was laid out with the group expanded and the root collapsed.
C29_Witness ==
    /\ lDone
    /\ Len(lNodes) >= 3
    /\ lExpandedIds = {"mod-data"}
    /\ \E i \in DOMAIN lResult.nodes :
          lResult.nodes[i].id = "f1::h::7" /\ ~lResult.nodes[i].hidden
    /\ \E i \in DOMAIN lResult.nodes : lResult.nodes[i].hidden

\* The ids on the parent chain of a node of the list: its parent, the
\* parent's parent, and so on.
RECURSIVE Ancestors(_, _, _)
Ancestors(n, id, fuel) ==
    IF fuel = 0 THEN {}
    ELSE UNION {{n[i].parentNode} \cup Ancestors(n, n[i].parentNode, fuel - 1) :
                  i \in {j \in DOMAIN n : n[j].id = id /\ Truthy(n[j].parentNode)}}

\* C30: every node the layout leaves visible has all the ids of its parent
\* chain in the expanded set.
C30_AncestorsExpanded ==
    lDone =>
        \A i \in DOMAIN lResult.nodes :
           ~lResult.nodes[i].hidden
              => Ancestors(lNodes, lNodes[i].id, Len(lNodes)) \subseteq lExpandedIds

\* The ids of the nodes a layout result shows.
ShownIds(result) ==
    {result.nodes[i].id : i \in {j \in DOMAIN result.nodes : ~result.nodes[j].hidden}}

\* C31: an edge takes part in the layout only if both its ends are visible,
\* and an edge with a hidden end is not among the edges the layout returns
\* for rendering.
C31_EdgeInclusion ==
    lDone =>
        /\ \A pair \in lDagre.edges :
              pair[1] \in ShownIds(lResult) /\ pair[2] \in ShownIds(lResult)
        /\ \A i \in DOMAIN lResult.edges :
              /\ lResult.edges[i].source \in ShownIds(lResult)
              /\ lResult.edges[i].target \in ShownIds(lResult)

\* The largest width considered for the cap on a leaf's width.
MaxWidthCap == 400

\* The input nodes that are containers for the layout.
ContainerIds(n) ==
    {n[i].id : i \in {j \in DOMAIN n : n[j].type \in {"group", "system"}}}

\* C32: a visible collapsed container is laid out 300 x 100, a visible
\* expanded one 10 x 10, and a visible leaf at least 180 wide and no wider
\* than one fixed cap.
C32_LayoutSizing ==
    lDone =>
        /\ \A d \in lDagre.nodes :
              IF d.id \in ContainerIds(lNodes)
              THEN d.size = (IF d.id \in lExpandedIds
                             THEN [width |-> 10, height |-> 10]
                             ELSE [width |-> 300, height |-> 100])
              ELSE d.size.width >= 180
        /\ \E cap \in 180..MaxWidthCap :
              \A d \in lDagre.nodes :
                 d.id \notin ContainerIds(lNodes) => d.size.width <= cap

\* C33: once the mode has been turned off while a scan runs, that scan
\* begins no further file.
C33_ScanCancelable ==
    \A k \in DOMAIN scans : scans[k].late = {}

\* The updateGraph messages the webview is to discard: one whose token is
\* not the active one while a token is active, and a background update
\* while the navigation stack holds a frame.
ToBeDiscarded(message) ==
    \/ Truthy(activeRequestId) /\ message.requestId # activeRequestId
    \/ ~Truthy(message.requestId) /\ Len(viewStack) > 0

\* C34: handling an updateGraph message that is to be discarded leaves the
\* displayed nodes and edges, the navigation stack, the current label, the
\* expansion state and the active token as they were.
C34_DiscardChangesNothing ==
    [][(/\ inbox # <<>>
        /\ inbox' = Tail(inbox)
        /\ ToBeDiscarded(Head(inbox)))
         => UNCHANGED <<rawNodes, rawEdges, nodes, viewStack, currentLabel,
                        expandedIdsRef, activeRequestId>>]_vars

\* The nodes a double click drills into: a system or process node that
\* carries at least one source file.
Drillable(node) ==
    /\ node.type \in {"system", "process"}
    /\ Len(node.data.files) >= 1

\* C35: a drillDown request is created only by a double click on a system
\* or process node on screen that carries files; a double click on any other
\* node on screen creates no request, pushes no frame and leaves the active
\* token, the label and the displayed nodes and edges as they were, and it
\* changes the expansion state only by toggling the id of a group node.
C35_EntryGuard ==
    [][/\ issued' # issued
            => /\ Len(issued') = Len(issued) + 1
               /\ \E node \in OnScreen :
                     /\ Drillable(node)
                     /\ issued'[Len(issued')].filePaths = node.data.files
                     /\ issued'[Len(issued')].label = node.data.label
                     /\ issued'[Len(issued')].nodeType = node.type
       /\ \A node \in OnScreen, t \in ClockReadings :
             (~Drillable(node) /\ onNodeDoubleClick(node, t))
                => /\ UNCHANGED <<issued, pending, viewStack, activeRequestId,
                                  currentLabel, rawNodes, rawEdges>>
                   /\ expandedIdsRef' =
                         (IF node.type # "group" THEN expandedIdsRef
                          ELSE IF node.id \in expandedIdsRef
                          THEN expandedIdsRef \ {node.id}
                          ELSE expandedIdsRef \cup {node.id})]_vars

\* C35 witness: a graph with several roots is on screen, among them a system
\* node without files and a leaf component; a group node has been toggled
\* open, and no request has been made.
C35_Witness ==
    /\ issued = <<>>
    /\ viewStack = <<>>
    /\ \E node \in OnScreen : node.type = "system" /\ Len(node.data.files) = 0
    /\ \E node \in OnScreen : node.type = "component"
    /\ \E node \in OnScreen : node.type = "group" /\ node.id \in expandedIdsRef

\* The visibility flag of every node of a layouted list, by position.
HiddenFlags(layouted) ==
    [i \in DOMAIN layouted |-> [id |-> layouted[i].id, hidden |-> layouted[i].hidden]]

\* C36: the visibility flags of the nodes on screen are those the layout
\* gives for the current raw nodes, raw edges and expansion state.
C36_LayoutMatchesState ==
    HiddenFlags(nodes)
       = HiddenFlags(getLayoutedElements(rawNodes, rawEdges, expandedIdsRef).nodes)

\* C36 witness, Back: a drill-down was undone by Back while the id of a
\* group node of the restored graph is in the expansion state.
C36_Witness ==
    /\ cancelled # {}
    /\ viewStack = <<>>
    /\ \E i \in DOMAIN nodes :
          nodes[i].type = "group" /\ nodes[i].id \in expandedIdsRef

\* Toggle: a node with a parent is on screen hidden, its parent collapsed
\* by a double click after the first update had expanded it.
C36_ToggleReached ==
    /\ issued = <<>>
    /\ \E i \in DOMAIN nodes :
          /\ nodes[i].hidden
          /\ nodes[i].parentNode \in {rawNodes[j].id : j \in DOMAIN rawNodes}
          /\ nodes[i].parentNode \notin expandedIdsRef

\* What a call returns when no other call runs on the instance.
RunAlone(request) ==
    GraphRun(BatchFiles(request.paths, gCalls), request.semanticMap,
             request.rootLabel, FALSE)

\* The (source, target, weight) of the edges of a graph.
EdgeWeights(es) == {EdgeTriple(es[i]) : i \in DOMAIN es}

\* C37: a call of generateGraph that overlaps another one on the instance
\* returns the node ids and the (pair, weight) edges it returns alone, and
\* while it waits for its queries the instance's reverse index holds every
\* entry the call wrote.
C37_NoInterference ==
    \A k \in DOMAIN oRuns :
       /\ oRuns[k].stage = "done" =>
             /\ RunNodeIds(oRuns[k].result) = RunNodeIds(RunAlone(oRuns[k].request))
             /\ EdgeWeights(oRuns[k].result.edges)
                   = EdgeWeights(RunAlone(oRuns[k].request).edges)
       /\ oRuns[k].stage = "waiting" =>
             \A key \in MapKeys(oRuns[k].walk.nodeIdMap) :
                /\ MapHas(svcNodeIdMap, key)
                /\ MapGet(svcNodeIdMap, key) = MapGet(oRuns[k].walk.nodeIdMap, key)

\* The node ids alone: every finished call returns the ids it returns alone.
C37_NodeIdsKept ==
    \A k \in DOMAIN oRuns :
       oRuns[k].stage = "done" =>
          RunNodeIds(oRuns[k].result) = RunNodeIds(RunAlone(oRuns[k].request))

\* C38: a run of the drillDown handler posts at most one updateGraph, and
\* that one carries the requestId of the drillDown message handled; an
\* updateGraph posted otherwise (by a background refresh) carries none.
C38_TokenCarried ==
    [][/\ finished' # finished
            => \E msg \in pending \ pending' :
                  /\ finished' = finished \cup {msg.n}
                  /\ \/ inbox' = inbox
                     \/ /\ Len(inbox') = Len(inbox) + 1
                        /\ SubSeq(inbox', 1, Len(inbox)) = inbox
                        /\ inbox'[Len(inbox')].requestId = msg.requestId
                        /\ inbox'[Len(inbox')].requestId = issued[msg.n].requestId
       /\ (finished' = finished /\ Len(inbox') > Len(inbox))
            => /\ Len(inbox') = Len(inbox) + 1
               /\ SubSeq(inbox', 1, Len(inbox)) = inbox
               /\ inbox'[Len(inbox')].requestId = UNDEFINED]_vars

\* C38 witness: the response to a drill-down on a system node, published
\* from the heuristic tier, is in flight with the token of its request.
C38_Witness ==
    /\ inbox # <<>>
    /\ Truthy(inbox[1].requestId)
    /\ inbox[1].n \in published
    /\ lastAnswer.message.n = inbox[1].n
    /\ lastAnswer.message.nodeType = "system"
    /\ ~IsValidFlow(lastAnswer.sub)

\* C39: when the drillDown handler for a system node enters the heuristic
\* tier (inference gave no flow of two nodes), what it publishes is the
\* heuristic flow, of at least two nodes, the first the start node and the
\* last the end node; the component graph of the third tier is not
\* published.
C39_HeuristicNeverEmpty ==
    (lastAnswer.message.nodeType = "system" /\ ~IsValidFlow(lastAnswer.sub)) =>
        /\ lastAnswer.pub.posted
        /\ Len(lastAnswer.pub.data.nodes) >= 2
        /\ lastAnswer.pub.data.nodes[1].id = "start"
        /\ lastAnswer.pub.data.nodes[Len(lastAnswer.pub.data.nodes)].id = "end"
        /\ \A i \in DOMAIN lastAnswer.pub.data.nodes :
              lastAnswer.pub.data.nodes[i].type \in {"start", "process", "end"}

\* C39 witness: inference failed for a system node with a single file and
\* the handler has published.
C39_Witness ==
    /\ lastAnswer.message.nodeType = "system"
    /\ lastAnswer.sub.isNull
    /\ Len(lastAnswer.message.filePaths) = 1
    /\ lastAnswer.pub.posted

\* The function on its own, the empty file list included: at least the
\* start and the end node.
C39_AtLeastTwoNodes ==
    hDone =>
        /\ Len(hFlow.nodes) >= 2
        /\ hFlow.nodes[1].type = "start"
        /\ hFlow.nodes[Len(hFlow.nodes)].type = "end"

====
